---- MODULE Spec2Model ----
(***************************************************************************)
(* Habitability scoring engine of ExoHabitabilityLab: the factor registry, *)
(* the scoring configuration, the built-in factors and                     *)
(* ScoringEngine.evaluate, as a state machine.                             *)
(*                                                                         *)
(* Number representation.  Python floats are modelled by exact numbers:    *)
(*   - scores are integers in thousandths (1000 = 1.0);                    *)
(*   - configured weights are integers in hundredths (12 = 0.12);          *)
(*   - normalized weights, weighted scores, total_score and                *)
(*     data_completeness are exact fractions [n, d] in lowest terms;       *)
(*   - physical inputs are integers in thousandths of their unit, except   *)
(*     temperatures (kelvin) and periods (days).                           *)
(* An optional value is <<>> (None) or <<v>> (the value v).                *)
(***************************************************************************)
EXTENDS Integers, Sequences, FiniteSets, TLC

VARIABLES
    factors,     \* ScoringEngine._factors: the registry, in insertion order
    config,      \* ScoringEngine.config
    exoplanet,   \* the ExoplanetEntity handed to evaluate
    star,        \* the StarEntity handed to evaluate
    assessment,  \* the HabitabilityAssessment the last evaluate returned, if any
    results,     \* what each factor.evaluate of that call returned or raised
    calls,       \* evaluate calls in progress: each caller's arguments and locals
    now          \* the clock datetime.utcnow() reads

vars == <<factors, config, exoplanet, star, assessment, results, calls, now>>

\* ------------------------------------------------------------------ bounds

\* At most this many factors are registered at once in the injected-factor engine.
MaxFactors == 3

\* ------------------------------------------------------------ optional values

None == <<>>
Some(v) == <<v>>
IsNone(x) == x = <<>>
Val(x) == x[1]

\* ------------------------------------------------------------------ numbers

Abs(x) == IF x < 0 THEN -x ELSE x
Max(a, b) == IF a >= b THEN a ELSE b
Min(a, b) == IF a <= b THEN a ELSE b

RECURSIVE GCD(_, _)
GCD(a, b) == IF b = 0 THEN a ELSE GCD(b, a % b)

\* The fraction n/d in lowest terms with a positive denominator.
Rat(n, d) ==
    LET g == GCD(Abs(n), Abs(d))
        s == IF d < 0 THEN -1 ELSE 1
    IN  [n |-> s * (n \div g), d |-> s * (d \div g)]

Zero == Rat(0, 1)
RAdd(a, b) ==
    LET g == GCD(a.d, b.d)
    IN  Rat(a.n * (b.d \div g) + b.n * (a.d \div g), (a.d \div g) * b.d)
RMul(a, b) ==
    LET g1 == GCD(Abs(a.n), b.d)
        g2 == GCD(Abs(b.n), a.d)
    IN  Rat((a.n \div g1) * (b.n \div g2), (a.d \div g2) * (b.d \div g1))
RDiv(a, b) == RMul(a, Rat(b.d, b.n))
RLe(a, b) == a.n * b.d <= b.n * a.d

\* A score in thousandths as a fraction.
Milli(x) == Rat(x, 1000)

RECURSIVE RSum(_)
RSum(s) == IF s = <<>> THEN Zero ELSE RAdd(Head(s), RSum(Tail(s)))

\* ------------------------------------------------------------- ScoringConfig

\* A validation that only refuses weights above 1.
ValidWeightUpperOnly(w) == w <= 100

\* FactorWeightConfig.__post_init__: a weight outside [0, 1] is rejected.
ValidWeight(w) == 0 <= w /\ w <= 100

\* ScoringConfig.DEFAULT_WEIGHTS, in hundredths.
DEFAULT_WEIGHTS ==
    [ stellar_type |-> 12, stellar_luminosity |-> 8, stellar_age |-> 5,
      habitable_zone_position |-> 5,
      planet_radius |-> 12, planet_mass |-> 8, planet_density |-> 5,
      equilibrium_temperature |-> 10, surface_gravity |-> 5,
      orbital_eccentricity |-> 8, tidal_locking |-> 7,
      atmosphere_retention |-> 8, magnetic_field_potential |-> 7 ]

\* ScoringConfig.DEFAULT_CONFIDENCE_THRESHOLDS, in hundredths.
DEFAULT_CONFIDENCE_THRESHOLDS ==
    [ very_low |-> 20, low |-> 40, medium |-> 60, high |-> 80, very_high |-> 100 ]

\* ScoringConfig(): __post_init__ fills an empty factor_weights from the table
\* and empty confidence_thresholds from the default thresholds.
DefaultConfig ==
    [ version |-> "2.0.0",
      factor_weights |->
        [fid \in DOMAIN DEFAULT_WEIGHTS |->
            [factor_id |-> fid, weight |-> DEFAULT_WEIGHTS[fid], enabled |-> TRUE,
             parameters |-> <<>>]],
      normalization_method |-> "weighted_average",
      minimum_factors |-> 3,
      confidence_thresholds |-> DEFAULT_CONFIDENCE_THRESHOLDS ]

\* ScoringConfig(version, factor_weights, ...) after __post_init__.
ScoringConfig(version, factor_weights, normalization_method, minimum_factors, confidence_thresholds) ==
    [ version |-> version,
      factor_weights |-> IF DOMAIN factor_weights = {}
                         THEN DefaultConfig.factor_weights ELSE factor_weights,
      normalization_method |-> normalization_method,
      minimum_factors |-> minimum_factors,
      confidence_thresholds |-> IF DOMAIN confidence_thresholds = {}
                                THEN DEFAULT_CONFIDENCE_THRESHOLDS
                                ELSE confidence_thresholds ]

\* An is_factor_enabled that ignores the enabled flag.
is_factor_enabled_always(cfg, fid) == TRUE

is_factor_enabled(cfg, fid) ==
    IF fid \in DOMAIN cfg.factor_weights
    THEN cfg.factor_weights[fid].enabled
    ELSE TRUE

get_weight(cfg, fid) ==
    IF fid \in DOMAIN cfg.factor_weights
    THEN IF cfg.factor_weights[fid].enabled
         THEN cfg.factor_weights[fid].weight ELSE 0
    ELSE 0

get_enabled_factors(cfg) ==
    {fid \in DOMAIN cfg.factor_weights : cfg.factor_weights[fid].enabled}

RECURSIVE SumWeights(_, _)
SumWeights(cfg, ids) ==
    IF ids = {} THEN 0
    ELSE LET fid == CHOOSE x \in ids : TRUE
         IN  cfg.factor_weights[fid].weight + SumWeights(cfg, ids \ {fid})

\* In hundredths.
get_total_weight(cfg) == SumWeights(cfg, get_enabled_factors(cfg))

\* A normalization that divides by the total over every configured factor,
\* disabled ones included.
normalize_weights_over_all(cfg) ==
    LET total == SumWeights(cfg, DOMAIN cfg.factor_weights)
    IN  IF total = 0 THEN <<>>
        ELSE [fid \in get_enabled_factors(cfg) |->
                 Rat(cfg.factor_weights[fid].weight, total)]

normalize_weights(cfg) ==
    LET total == get_total_weight(cfg)
    IN  IF total = 0 THEN <<>>
        ELSE [fid \in get_enabled_factors(cfg) |->
                 Rat(cfg.factor_weights[fid].weight, total)]

\* dict.get(key, default)
DictGet(d, key, default) == IF key \in DOMAIN d THEN d[key] ELSE default

\* ------------------------------------------------------- FactorResult / base

\* A clamp that bounds the score from above only.
ClampScoreUpperOnly(score) == Min(1000, score)

\* FactorResult.__post_init__ clamps the score into [0, 1].
ClampScore(score) == Max(0, Min(1000, score))

FactorResult(fid, score, explanation, confidence, is_applicable, missing_data) ==
    [ factor_id |-> fid,
      score |-> ClampScore(score),
      explanation |-> explanation,
      confidence |-> confidence,
      is_applicable |-> is_applicable,
      missing_data |-> missing_data ]

\* BaseScoringFactor._create_missing_data_result
create_missing_data_result(fid, missing_field) ==
    FactorResult(fid, 500,
                 <<"Required data '", missing_field,
                   "' is not available. Assigned neutral score.">>,
                 "very_low", FALSE, Some(missing_field))

\* What a call of factor.evaluate does: it returns a result or raises.
Returned(r) == [raised |-> FALSE, result |-> Some(r), error |-> ""]
Raised(e) == [raised |-> TRUE, result |-> None, error |-> e]

\* ---------------------------------------------- building and loading configs

\* FactorWeightConfig(factor_id, weight, enabled, parameters): __post_init__
\* raises ValueError for a weight outside [0, 1].
FactorWeightConfig(factor_id, weight, enabled, parameters) ==
    IF ~ValidWeight(weight)
    THEN Raised("Weight must be between 0 and 1")
    ELSE Returned([factor_id |-> factor_id, weight |-> weight, enabled |-> enabled,
                   parameters |-> parameters])

\* An entry of the "factor_weights" mapping of a config file: a mapping with
\* optional keys weight, enabled, parameters, or a bare number.
DictEntry(d) == [is_dict |-> TRUE, dict |-> d, number |-> 0]
NumberEntry(w) == [is_dict |-> FALSE, dict |-> <<>>, number |-> w]

\* ScoringConfig.from_dict: the config, or the ValueError of the first
\* FactorWeightConfig that refuses its weight.
from_dict(data) ==
    LET entries == DictGet(data, "factor_weights", <<>>)
        built == [fid \in DOMAIN entries |->
                    IF entries[fid].is_dict
                    THEN FactorWeightConfig(fid,
                             DictGet(entries[fid].dict, "weight", 10),
                             DictGet(entries[fid].dict, "enabled", TRUE),
                             DictGet(entries[fid].dict, "parameters", <<>>))
                    ELSE FactorWeightConfig(fid, entries[fid].number, TRUE, <<>>)]
    IN  IF \E fid \in DOMAIN built : built[fid].raised
        THEN Raised("Weight must be between 0 and 1")
        ELSE Returned(ScoringConfig(
                 DictGet(data, "version", "2.0.0"),
                 [fid \in DOMAIN built |-> Val(built[fid].result)],
                 DictGet(data, "normalization_method", "weighted_average"),
                 DictGet(data, "minimum_factors", 3),
                 DictGet(data, "confidence_thresholds", <<>>)))

\* A to_dict that leaves the "enabled" key out of the factor entries.
to_dict_without_enabled(cfg) ==
    [ version |-> cfg.version,
      factor_weights |->
          [fid \in DOMAIN cfg.factor_weights |->
              DictEntry([ weight |-> cfg.factor_weights[fid].weight,
                          parameters |-> cfg.factor_weights[fid].parameters ])],
      normalization_method |-> cfg.normalization_method,
      minimum_factors |-> cfg.minimum_factors,
      confidence_thresholds |-> cfg.confidence_thresholds ]

\* ScoringConfig.to_dict
to_dict(cfg) ==
    [ version |-> cfg.version,
      factor_weights |->
          [fid \in DOMAIN cfg.factor_weights |->
              DictEntry([ weight |-> cfg.factor_weights[fid].weight,
                          enabled |-> cfg.factor_weights[fid].enabled,
                          parameters |-> cfg.factor_weights[fid].parameters ])],
      normalization_method |-> cfg.normalization_method,
      minimum_factors |-> cfg.minimum_factors,
      confidence_thresholds |-> cfg.confidence_thresholds ]

\* ------------------------------------------------- injected (custom) factors

\* Factors written against the ScoringFactor protocol and injected into an
\* engine: each class fixes what its evaluate does, whatever the inputs.
StubClasses ==
    {"RaisingFactor", "HighFactor", "LowFactor", "MidFactor", "MissingFactor"}
StubIds == {"fa", "fb", "fc"}

StubEvaluate(f) ==
    CASE f.cls = "RaisingFactor" -> Raised("boom")
      [] f.cls = "HighFactor" ->
            Returned(FactorResult(f.factor_id, 1500, <<"computed">>, "high", TRUE, None))
      [] f.cls = "LowFactor" ->
            Returned(FactorResult(f.factor_id, -200, <<"computed">>, "medium", TRUE, None))
      [] f.cls = "MidFactor" ->
            Returned(FactorResult(f.factor_id, 700, <<"computed">>, "low", TRUE, None))
      [] f.cls = "MissingFactor" ->
            Returned(create_missing_data_result(f.factor_id, "custom_field"))

\* ------------------------------------------------------ fixed-point helpers

\* floor(a * b / 1000), without an intermediate larger than the result.
MulK(a, b) ==
    LET a1 == a \div 1000
        a0 == a % 1000
        q  == b \div 1000
        r  == b % 1000
    IN  a1 * b + a0 * q + ((a0 * r) \div 1000)

\* Python's a / b on floats, in thousandths, rounded toward zero.
DivK(a, b) ==
    LET q == (Abs(a) * 1000) \div Abs(b)
    IN  IF (a < 0) = (b < 0) THEN q ELSE -q

\* floor(sqrt(n)) for n >= 0, by bisection on [lo, hi].
RECURSIVE ISqrtIn(_, _, _)
ISqrtIn(n, lo, hi) ==
    IF lo >= hi THEN lo
    ELSE LET mid == (lo + hi + 1) \div 2
         IN  IF mid * mid <= n THEN ISqrtIn(n, mid, hi) ELSE ISqrtIn(n, lo, mid - 1)
ISqrt(n) == ISqrtIn(n, 0, 46340)

\* ----------------------------------------------------------------- entities

\* ExoplanetEntity with every optional field absent.
EmptyExoplanet ==
    [ orbital  |-> [ period_days |-> None, semi_major_axis_au |-> None,
                     eccentricity |-> None ],
      physical |-> [ radius_earth |-> None, mass_earth |-> None,
                     density_g_cm3 |-> None, equilibrium_temp_k |-> None ] ]

\* StarEntity with every optional field absent.
EmptyStar ==
    [ spectral_type |-> None, radius_solar |-> None, temperature_k |-> None,
      luminosity_solar |-> None, luminosity_log |-> None, age_gyr |-> None ]

\* str.upper() on the characters spectral types are written with.
Upper(c) ==
    CASE c = "g" -> "G" [] c = "k" -> "K" [] c = "m" -> "M" [] c = "f" -> "F"
      [] c = "v" -> "V" [] c = "i" -> "I" [] c = "a" -> "A" [] c = "b" -> "B"
      [] OTHER -> c
UpperStr(s) == [i \in 1..Len(s) |-> Upper(s[i])]

\* Python's `pat in s` on strings.
Contains(s, pat) ==
    \E i \in 0..(Len(s) - Len(pat)) :
        \A j \in 1..Len(pat) : s[i + j] = pat[j]

\* Python truthiness of an optional string: None and "" are falsy.
Falsy(x) == IsNone(x) \/ Val(x) = <<>>

SpectralClasses == {"O", "B", "A", "F", "G", "K", "M", "L", "T", "Y"}

\* StarEntity.spectral_class
spectral_class(st) ==
    IF Falsy(st.spectral_type) THEN "UNKNOWN"
    ELSE LET first_char == Upper(Val(st.spectral_type)[1])
         IN  IF first_char \in SpectralClasses THEN first_char ELSE "UNKNOWN"

\* StarEntity.luminosity_class
luminosity_class(st) ==
    IF Falsy(st.spectral_type) THEN "UNKNOWN"
    ELSE LET spec == UpperStr(Val(st.spectral_type))
         IN  CASE Contains(spec, <<"V", "I", "I">>) -> "VII"
               [] Contains(spec, <<"V", "I">>) -> "VI"
               [] Contains(spec, <<"I", "V">>) -> "IV"
               [] Contains(spec, <<"I", "I", "I">>) -> "III"
               [] Contains(spec, <<"I", "I">>) -> "II"
               [] Contains(spec, <<"I", "B">>) -> "Ib"
               [] Contains(spec, <<"I", "A">>) -> "Ia"
               [] Contains(spec, <<"V">>) -> "V"
               [] OTHER -> "UNKNOWN"

\* 10 ** x for a whole exponent x given in thousandths; the result in thousandths.
RECURSIVE Pow10(_)
Pow10(x) ==
    IF x = 0 THEN 1000
    ELSE IF x > 0 THEN 10 * Pow10(x - 1000)
    ELSE Pow10(x + 1000) \div 10

\* StarEntity.luminosity_linear
luminosity_linear(st) ==
    IF ~IsNone(st.luminosity_solar) THEN st.luminosity_solar
    ELSE IF ~IsNone(st.luminosity_log) THEN Some(Pow10(Val(st.luminosity_log)))
    ELSE None

SOLAR_TEMP_K == 5778

\* StarEntity.estimate_luminosity: (R/Rsun)^2 * (T/Tsun)^4
estimate_luminosity(st) ==
    IF ~IsNone(luminosity_linear(st)) THEN luminosity_linear(st)
    ELSE IF ~IsNone(st.radius_solar) /\ ~IsNone(st.temperature_k)
    THEN LET r  == Val(st.radius_solar)
             tr == DivK(Val(st.temperature_k), SOLAR_TEMP_K)
             t2 == MulK(tr, tr)
         IN  Some(MulK(MulK(r, r), MulK(t2, t2)))
    ELSE None

\* Kopparapu (2014) coefficients of S_eff = c0 + a*T + b*T^2 + c*T^3 + d*T^4,
\* T = teff - 5780.  c0 in millionths; a, b, c, d in hundredths of a millionth
\* per power of 1000 K.
HZ_COEFFS ==
    [ recent_venus   |-> <<1776300, 14335000,  339540, -763640, -119500>>,
      runaway        |-> <<1038500, 12456000, 1461200, -763450, -175110>>,
      max_greenhouse |-> << 350700,  5957800,  167070, -300580,  -51925>>,
      early_mars     |-> << 320700,  5447100,  152750, -217090,  -38282>> ]

\* The stellar flux S_eff in millionths, at t_star kelvin from the solar value.
StellarFlux(c, t_star) ==
    LET x2 == MulK(t_star, t_star)
        x3 == MulK(x2, t_star)
        x4 == MulK(x3, t_star)
    IN  c[1] + (MulK(c[2], t_star) \div 100) + (MulK(c[3], x2) \div 100)
             + (MulK(c[4], x3) \div 100) + (MulK(c[5], x4) \div 100)

\* sqrt_l / math.sqrt(s) if s > 0 else None; distances in thousandths of an AU.
HzBoundary(sqrt_l, s) ==
    IF s > 0 THEN Some((sqrt_l * 10000) \div ISqrt(s * 100)) ELSE None

\* StarEntity.calculate_habitable_zone: raises (math.sqrt of a negative
\* luminosity), or returns None or <<cons_inner, cons_outer, opt_inner, opt_outer>>.
calculate_habitable_zone(st) ==
    LET luminosity == estimate_luminosity(st)
    IN  IF IsNone(luminosity) THEN Returned(None)
        ELSE
        LET teff == IF ~IsNone(st.temperature_k) /\ Val(st.temperature_k) # 0
                    THEN Val(st.temperature_k) ELSE SOLAR_TEMP_K
            t_star == teff - 5780
            s_recent_venus   == StellarFlux(HZ_COEFFS.recent_venus, t_star)
            s_runaway        == StellarFlux(HZ_COEFFS.runaway, t_star)
            s_max_greenhouse == StellarFlux(HZ_COEFFS.max_greenhouse, t_star)
            s_early_mars     == StellarFlux(HZ_COEFFS.early_mars, t_star)
        IN  IF Val(luminosity) < 0 THEN Raised("math domain error")
            ELSE
            LET sqrt_l == ISqrt(Val(luminosity) * 1000)
                conservative_inner == HzBoundary(sqrt_l, s_runaway)
                conservative_outer == HzBoundary(sqrt_l, s_max_greenhouse)
                optimistic_inner   == HzBoundary(sqrt_l, s_recent_venus)
                optimistic_outer   == HzBoundary(sqrt_l, s_early_mars)
            IN  IF \A v \in {conservative_inner, conservative_outer,
                             optimistic_inner, optimistic_outer} : ~IsNone(v)
                THEN Returned(Some(<<Val(conservative_inner), Val(conservative_outer),
                                     Val(optimistic_inner), Val(optimistic_outer)>>))
                ELSE Returned(None)

\* StarEntity.get_hz_position, given the boundaries hz it has computed.
get_hz_position(hz, distance_au) ==
    CASE distance_au < hz[3]  -> "too_hot"
      [] distance_au >= hz[3] /\ distance_au < hz[1] -> "optimistic_inner_edge"
      [] distance_au >= hz[3] /\ distance_au >= hz[1] /\ distance_au <= hz[2]
            -> "conservative_hz"
      [] distance_au >= hz[3] /\ distance_au >= hz[1] /\ distance_au > hz[2]
            /\ distance_au <= hz[4] -> "optimistic_outer_edge"
      [] OTHER -> "too_cold"

\* PhysicalParameters.surface_gravity_earth: mass / radius^2
surface_gravity_earth(ph) ==
    IF IsNone(ph.mass_earth) \/ IsNone(ph.radius_earth) THEN None
    ELSE IF Val(ph.radius_earth) <= 0 THEN None
    ELSE Some(DivK(DivK(Val(ph.mass_earth), Val(ph.radius_earth)),
                   Val(ph.radius_earth)))

\* PhysicalParameters.estimate_density: raises on a zero radius.
estimate_density(ph) ==
    IF ~IsNone(ph.density_g_cm3) THEN Returned(ph.density_g_cm3)
    ELSE IF IsNone(ph.mass_earth) \/ IsNone(ph.radius_earth) THEN Returned(None)
    ELSE IF Val(ph.radius_earth) = 0 THEN Raised("float division by zero")
    ELSE LET r == Val(ph.radius_earth)
         IN  Returned(Some(DivK(DivK(DivK(MulK(5514, Val(ph.mass_earth)), r), r), r)))

\* -------------------------------------------------------- built-in factors

\* A score looked up in a table of ascending exclusive upper limits:
\* table[i] = <<limit, score>>, and `last` is the score past every limit.
RECURSIVE Banded(_, _, _)
Banded(x, table, last) ==
    IF table = <<>> THEN last
    ELSE IF x < Head(table)[1] THEN Head(table)[2]
    ELSE Banded(x, Tail(table), last)

Scored(fid, score, confidence) ==
    Returned(FactorResult(fid, score, <<"explanation", fid>>, confidence, TRUE, None))

\* StellarTypeFactor.SPECTRAL_SCORES
SPECTRAL_SCORES ==
    [ O |-> 50, B |-> 100, A |-> 200, F |-> 600, G |-> 950, K |-> 900,
      M |-> 450, L |-> 100, T |-> 50, Y |-> 20, UNKNOWN |-> 500 ]

\* StellarTypeFactor.evaluate
StellarTypeEvaluate(exo, st) ==
    IF Falsy(st.spectral_type)
    THEN Returned(create_missing_data_result("stellar_type", "stellar_type"))
    ELSE LET sc == spectral_class(st)
         IN  Scored("stellar_type", SPECTRAL_SCORES[sc],
                    IF sc \in {"F", "G", "K", "M"} THEN "high"
                    ELSE IF sc = "UNKNOWN" THEN "very_low" ELSE "medium")

\* StellarLuminosityFactor.LUMINOSITY_SCORES
LUMINOSITY_SCORES ==
    [ V |-> 1000, IV |-> 500, VI |-> 700, III |-> 200, II |-> 100,
      Ib |-> 50, Ia |-> 20, VII |-> 100, UNKNOWN |-> 500 ]

\* StellarLuminosityFactor.evaluate: no missing-data branch.
StellarLuminosityEvaluate(exo, st) ==
    LET lc == luminosity_class(st)
    IN  Scored("stellar_luminosity", LUMINOSITY_SCORES[lc],
               CASE lc = "V" -> "high"
                 [] lc = "IV" -> "medium"
                 [] lc \in {"III", "II", "Ia", "Ib"} -> "high"
                 [] lc = "UNKNOWN" -> "low"
                 [] OTHER -> "medium")

\* StellarAgeFactor.evaluate
StellarAgeEvaluate(exo, st) ==
    IF IsNone(st.age_gyr)
    THEN Returned(create_missing_data_result("stellar_age", "stellar_age_gyr"))
    ELSE Scored("stellar_age",
                Banded(Val(st.age_gyr),
                       << <<500, 200>>, <<1000, 400>>, <<2000, 700>>,
                          <<8000, 1000>>, <<10000, 700>> >>, 400),
                "medium")

\* HabitableZonePositionFactor.evaluate
HabitableZonePositionEvaluate(exo, st) ==
    IF IsNone(exo.orbital.semi_major_axis_au)
    THEN Returned(create_missing_data_result("habitable_zone_position",
                                             "semi_major_axis_au"))
    ELSE
    LET distance_au == Val(exo.orbital.semi_major_axis_au)
        hzc == calculate_habitable_zone(st)
    IN  IF hzc.raised THEN hzc
        ELSE IF IsNone(Val(hzc.result))
        THEN Returned(FactorResult("habitable_zone_position", 500,
                          <<"Cannot calculate habitable zone without stellar luminosity data.">>,
                          "very_low", FALSE, Some("stellar_luminosity")))
        ELSE
        LET hz == Val(Val(hzc.result))
            position == get_hz_position(hz, distance_au)
        IN  CASE position = "conservative_hz" ->
                    Scored("habitable_zone_position", 1000, "high")
              [] position \in {"optimistic_inner_edge", "optimistic_outer_edge"} ->
                    Scored("habitable_zone_position", 700, "high")
              [] position = "too_hot" ->
                    IF hz[3] = 0 THEN Raised("float division by zero")
                    ELSE Scored("habitable_zone_position",
                                Max(0, 300 - DivK(hz[3] - distance_au, hz[3])), "high")
              [] position = "too_cold" ->
                    IF hz[4] = 0 THEN Raised("float division by zero")
                    ELSE Scored("habitable_zone_position",
                                Max(0, 300 - (DivK(distance_au - hz[4], hz[4]) \div 2)),
                                "high")

\* A PlanetRadiusFactor whose bands include their upper limits.
PlanetRadiusEvaluateInclusive(exo, st) ==
    IF IsNone(exo.physical.radius_earth)
    THEN Returned(create_missing_data_result("planet_radius", "planet_radius_earth"))
    ELSE Scored("planet_radius",
                Banded(Val(exo.physical.radius_earth) - 1,
                       << <<500, 300>>, <<800, 600>>, <<1250, 1000>>, <<1750, 850>>,
                          <<2500, 400>>, <<4000, 150>> >>, 50),
                "high")

\* PlanetRadiusFactor.evaluate
PlanetRadiusEvaluate(exo, st) ==
    IF IsNone(exo.physical.radius_earth)
    THEN Returned(create_missing_data_result("planet_radius", "planet_radius_earth"))
    ELSE Scored("planet_radius",
                Banded(Val(exo.physical.radius_earth),
                       << <<500, 300>>, <<800, 600>>, <<1250, 1000>>, <<1750, 850>>,
                          <<2500, 400>>, <<4000, 150>> >>, 50),
                "high")

\* PlanetMassFactor.evaluate
PlanetMassEvaluate(exo, st) ==
    IF IsNone(exo.physical.mass_earth)
    THEN Returned(create_missing_data_result("planet_mass", "planet_mass_earth"))
    ELSE Scored("planet_mass",
                Banded(Val(exo.physical.mass_earth),
                       << <<100, 150>>, <<500, 400>>, <<2000, 1000>>, <<5000, 800>>,
                          <<10000, 400>> >>, 100),
                "high")

\* PlanetDensityFactor.evaluate
PlanetDensityEvaluate(exo, st) ==
    LET dc == estimate_density(exo.physical)
    IN  IF dc.raised THEN dc
        ELSE IF IsNone(Val(dc.result))
        THEN Returned(create_missing_data_result("planet_density", "planet_density"))
        ELSE Scored("planet_density",
                    Banded(Val(Val(dc.result)),
                           << <<1000, 50>>, <<2000, 200>>, <<3500, 500>>, <<5000, 850>>,
                              <<6500, 1000>> >>, 700),
                    "medium")

\* EquilibriumTemperatureFactor.evaluate (kelvin)
EquilibriumTemperatureEvaluate(exo, st) ==
    IF IsNone(exo.physical.equilibrium_temp_k)
    THEN Returned(create_missing_data_result("equilibrium_temperature",
                                             "equilibrium_temp_k"))
    ELSE Scored("equilibrium_temperature",
                Banded(Val(exo.physical.equilibrium_temp_k),
                       << <<150, 50>>, <<200, 300>>, <<230, 600>>, <<260, 900>>,
                          <<300, 1000>>, <<350, 600>>, <<450, 200>> >>, 20),
                "medium")

\* SurfaceGravityFactor.evaluate
SurfaceGravityEvaluate(exo, st) ==
    LET gravity == surface_gravity_earth(exo.physical)
    IN  IF IsNone(gravity)
        THEN Returned(create_missing_data_result("surface_gravity", "surface_gravity"))
        ELSE Scored("surface_gravity",
                    Banded(Val(gravity),
                           << <<300, 300>>, <<700, 600>>, <<1500, 1000>>, <<2500, 700>>,
                              <<4000, 300>> >>, 100),
                    "medium")

\* OrbitalEccentricityFactor.evaluate
OrbitalEccentricityEvaluate(exo, st) ==
    IF IsNone(exo.orbital.eccentricity)
    THEN Returned(create_missing_data_result("orbital_eccentricity",
                                             "orbital_eccentricity"))
    ELSE Scored("orbital_eccentricity",
                Banded(Val(exo.orbital.eccentricity),
                       << <<20, 1000>>, <<100, 900>>, <<200, 700>>, <<300, 500>>,
                          <<500, 250>>, <<800, 100>> >>, 20),
                "high")

\* TidalLockingFactor.evaluate; lock_probability in thousandths.
TidalLockingEvaluate(exo, st) ==
    LET orbital_period  == exo.orbital.period_days
        semi_major_axis == exo.orbital.semi_major_axis_au
        teff == st.temperature_k
    IN  IF IsNone(orbital_period) /\ IsNone(semi_major_axis)
        THEN Returned(create_missing_data_result("tidal_locking",
                                                 "orbital_period or semi_major_axis"))
        ELSE
        LET lock_probability ==
                IF ~IsNone(semi_major_axis)
                THEN LET a == Val(semi_major_axis)
                     IN  IF ~IsNone(teff)
                         THEN CASE Val(teff) < 3700 ->
                                     Banded(a, << <<50, 990>>, <<100, 950>>,
                                                  <<200, 700>>, <<500, 300>> >>, 50)
                                [] Val(teff) >= 3700 /\ Val(teff) < 5200 ->
                                     Banded(a, << <<100, 800>>, <<300, 400>>,
                                                  <<500, 100>> >>, 20)
                                [] Val(teff) >= 5200 /\ Val(teff) < 6000 ->
                                     Banded(a, << <<100, 500>>, <<300, 100>> >>, 10)
                                [] OTHER -> 10
                         ELSE Max(0, 1000 - DivK(a, 300))
                ELSE Banded(Val(orbital_period),
                            << <<10, 900>>, <<30, 500>>, <<100, 200>> >>, 50)
        IN  Scored("tidal_locking",
                   Banded(lock_probability,
                          << <<100, 1000>>, <<300, 900>>, <<500, 700>>, <<700, 600>>,
                             <<900, 500>> >>, 400),
                   "low")

\* mass ** 0.27 and radius ** 3.7 on the positive values the model feeds them,
\* in thousandths.
POW_027 == (100 :> 537) @@ (500 :> 829) @@ (1000 :> 1000) @@ (5000 :> 1544)
POW_37 == (500 :> 77) @@ (1000 :> 1000) @@ (1500 :> 4483) @@ (2000 :> 12996)

\* math.sqrt(num / den) as AtmosphereRetentionFactor calls it; `complex` says
\* that num / den is a complex number (a fractional power of a negative base).
SqrtOfQuotient(num, den, complex) ==
    IF complex THEN Raised("must be real number, not complex")
    ELSE IF den = 0 THEN Raised("float division by zero")
    ELSE IF DivK(num, den) < 0 THEN Raised("math domain error")
    ELSE Returned(ISqrt(DivK(num, den) * 1000))

\* AtmosphereRetentionFactor.evaluate
AtmosphereRetentionEvaluate(exo, st) ==
    LET mass   == exo.physical.mass_earth
        radius == exo.physical.radius_earth
    IN  IF IsNone(mass) /\ IsNone(radius)
        THEN Returned(create_missing_data_result("atmosphere_retention",
                                                 "planet_mass or planet_radius"))
        ELSE
        LET escape_vel_ratio ==
                IF ~IsNone(mass) /\ ~IsNone(radius)
                THEN SqrtOfQuotient(Val(mass), Val(radius), FALSE)
                ELSE IF ~IsNone(mass)
                THEN LET est_radius == IF Val(mass) > 0 THEN POW_027[Val(mass)] ELSE 0
                     IN  SqrtOfQuotient(Val(mass), est_radius, Val(mass) < 0)
                ELSE LET est_mass == IF Val(radius) > 0 THEN POW_37[Val(radius)] ELSE 0
                     IN  IF Val(radius) < 0
                         THEN Raised("must be real number, not complex")
                         ELSE SqrtOfQuotient(est_mass, Val(radius), FALSE)
        IN  IF escape_vel_ratio.raised THEN escape_vel_ratio
            ELSE
            LET escape_vel_kms == (112 * Val(escape_vel_ratio.result)) \div 10
                stellar_teff == IF ~IsNone(st.temperature_k) /\ Val(st.temperature_k) # 0
                                THEN Val(st.temperature_k) ELSE 5778
                type_penalty == IF stellar_teff < 3700 THEN 200
                                ELSE IF stellar_teff < 4500 THEN 100 ELSE 0
                age_penalty  == IF ~IsNone(st.age_gyr) /\ Val(st.age_gyr) < 1000
                                THEN 150 ELSE 0
                base_score == Banded(escape_vel_kms,
                                     << <<3000, 100>>, <<5000, 300>>, <<8000, 600>>,
                                        <<12000, 850>>, <<20000, 950>> >>, 800)
            IN  Scored("atmosphere_retention",
                       Max(50, base_score - (type_penalty + age_penalty)), "medium")

\* MagneticFieldPotentialFactor.evaluate; its factor_id is "magnetic_field".
MagneticFieldPotentialEvaluate(exo, st) ==
    LET mass   == exo.physical.mass_earth
        dc     == estimate_density(exo.physical)
        radius == exo.physical.radius_earth
        stellar_age == st.age_gyr
        orbital_period == exo.orbital.period_days
    IN  IF dc.raised THEN dc
        ELSE IF IsNone(mass) /\ IsNone(radius)
        THEN Returned(create_missing_data_result("magnetic_field",
                                                 "planet_mass or planet_radius"))
        ELSE
        LET density == Val(dc.result)
            mass_score ==
                IF ~IsNone(mass)
                THEN Banded(Val(mass), << <<200, 200>>, <<500, 400>>, <<1500, 800>>,
                                          <<5000, 900>> >>, 700)
                ELSE Banded(Val(radius), << <<700, 300>>, <<1300, 750>> >>, 600)
            density_bonus ==
                IF IsNone(density) THEN 0
                ELSE CASE Val(density) > 5000 -> 100
                       [] Val(density) <= 5000 /\ Val(density) > 4000 -> 50
                       [] Val(density) < 2500 -> -200
                       [] OTHER -> 0
            age_penalty ==
                IF IsNone(stellar_age) THEN 0
                ELSE CASE Val(stellar_age) > 10000 -> 150
                       [] Val(stellar_age) <= 10000 /\ Val(stellar_age) > 8000 -> 50
                       [] Val(stellar_age) < 500 -> 100
                       [] OTHER -> 0
            stellar_teff == IF ~IsNone(st.temperature_k) /\ Val(st.temperature_k) # 0
                            THEN Val(st.temperature_k) ELSE 5778
            tidal_adjustment ==
                IF ~IsNone(orbital_period) /\ Val(orbital_period) < 30
                   /\ stellar_teff < 4000
                THEN -100 ELSE 0
        IN  Scored("magnetic_field",
                   Max(50, Min(1000, mass_score + density_bonus - age_penalty
                                     + tidal_adjustment)),
                   "low")

\* ------------------------------------------------------ the factor objects

Factor(fid, cls) == [factor_id |-> fid, cls |-> cls]

\* factors.get_all_factors(): the 13 built-in factors, in this order.
get_all_factors ==
    << Factor("stellar_type", "StellarTypeFactor"),
       Factor("stellar_luminosity", "StellarLuminosityFactor"),
       Factor("stellar_age", "StellarAgeFactor"),
       Factor("habitable_zone_position", "HabitableZonePositionFactor"),
       Factor("planet_radius", "PlanetRadiusFactor"),
       Factor("planet_mass", "PlanetMassFactor"),
       Factor("planet_density", "PlanetDensityFactor"),
       Factor("equilibrium_temperature", "EquilibriumTemperatureFactor"),
       Factor("surface_gravity", "SurfaceGravityFactor"),
       Factor("orbital_eccentricity", "OrbitalEccentricityFactor"),
       Factor("tidal_locking", "TidalLockingFactor"),
       Factor("atmosphere_retention", "AtmosphereRetentionFactor"),
       Factor("magnetic_field", "MagneticFieldPotentialFactor") >>

\* factor.category.value
category(f) ==
    CASE f.cls \in {"StellarTypeFactor", "StellarLuminosityFactor", "StellarAgeFactor",
                    "HabitableZonePositionFactor"} -> "stellar"
      [] f.cls \in {"PlanetRadiusFactor", "PlanetMassFactor", "PlanetDensityFactor",
                    "EquilibriumTemperatureFactor", "SurfaceGravityFactor"} -> "planetary"
      [] f.cls \in {"OrbitalEccentricityFactor", "TidalLockingFactor"} -> "orbital"
      [] OTHER -> "derived"

\* factor.evaluate(exoplanet, star)
FactorEvaluate(f, exo, st) ==
    CASE f.cls = "StellarTypeFactor" -> StellarTypeEvaluate(exo, st)
      [] f.cls = "StellarLuminosityFactor" -> StellarLuminosityEvaluate(exo, st)
      [] f.cls = "StellarAgeFactor" -> StellarAgeEvaluate(exo, st)
      [] f.cls = "HabitableZonePositionFactor" -> HabitableZonePositionEvaluate(exo, st)
      [] f.cls = "PlanetRadiusFactor" -> PlanetRadiusEvaluate(exo, st)
      [] f.cls = "PlanetMassFactor" -> PlanetMassEvaluate(exo, st)
      [] f.cls = "PlanetDensityFactor" -> PlanetDensityEvaluate(exo, st)
      [] f.cls = "EquilibriumTemperatureFactor" -> EquilibriumTemperatureEvaluate(exo, st)
      [] f.cls = "SurfaceGravityFactor" -> SurfaceGravityEvaluate(exo, st)
      [] f.cls = "OrbitalEccentricityFactor" -> OrbitalEccentricityEvaluate(exo, st)
      [] f.cls = "TidalLockingFactor" -> TidalLockingEvaluate(exo, st)
      [] f.cls = "AtmosphereRetentionFactor" -> AtmosphereRetentionEvaluate(exo, st)
      [] f.cls = "MagneticFieldPotentialFactor" -> MagneticFieldPotentialEvaluate(exo, st)
      [] OTHER -> StubEvaluate(f)


\* ------------------------------------------------------------ ScoringEngine

\* FactorScore built on the normal path of evaluate (engine.py, try block).
FactorScore(f, result, weight) ==
    [ factor_id |-> f.factor_id,
      category |-> category(f),
      raw_score |-> result.score,
      weight |-> weight,
      weighted_score |-> RMul(Milli(result.score), weight),
      explanation |-> result.explanation,
      confidence |-> result.confidence ]

\* An error path that degrades the factor to 0.0 instead of 0.5.
ErrorFactorScoreZero(f, error, weight) ==
    [ factor_id |-> f.factor_id,
      category |-> category(f),
      raw_score |-> 0,
      weight |-> weight,
      weighted_score |-> Zero,
      explanation |-> <<"Error during evaluation: ", error>>,
      confidence |-> "very_low" ]

\* FactorScore built on the error path of evaluate (engine.py, except block):
\* weighted_score is the literal 0.05.
ErrorFactorScore(f, error, weight) ==
    [ factor_id |-> f.factor_id,
      category |-> category(f),
      raw_score |-> 500,
      weight |-> weight,
      weighted_score |-> Rat(5, 100),
      explanation |-> <<"Error during evaluation: ", error>>,
      confidence |-> "very_low" ]

\* A handler that is `except ValueError` only.
CaughtValueErrorOnly(outcome) == outcome.error = "math domain error"

\* `except Exception`: every error a factor raises here (ValueError,
\* ZeroDivisionError, TypeError, a custom factor's exception) is caught.
Caught(outcome) == TRUE

\* The registered factors the loop does not skip, in registry order.
EnabledRegistered(fs, cfg) ==
    SelectSeq(fs, LAMBDA f : is_factor_enabled(cfg, f.factor_id))

\* normalized_weights.get(factor_id, 0.1)
WeightOf(normalized_weights, fid) == DictGet(normalized_weights, fid, Rat(1, 10))

\* One pass of the loop body for factor f whose evaluate ended in `outcome`.
ScoreOutcome(f, outcome, normalized_weights) ==
    IF outcome.raised
    THEN ErrorFactorScore(f, outcome.error, WeightOf(normalized_weights, f.factor_id))
    ELSE FactorScore(f, Val(outcome.result), WeightOf(normalized_weights, f.factor_id))

\* A count that takes a factor that raised for an applicable one.
CountRaisedAsApplicable(outcomes) ==
    Cardinality({i \in DOMAIN outcomes :
                    outcomes[i].raised \/ Val(outcomes[i].result).is_applicable})

\* applicable_factors: results that came back with is_applicable true.
ApplicableCount(outcomes) ==
    Cardinality({i \in DOMAIN outcomes :
                    ~outcomes[i].raised /\ Val(outcomes[i].result).is_applicable})

\* applicable_factors / total_applicable_factors if total_applicable_factors > 0 else 0.0
DataCompleteness(applicable_factors, total_applicable_factors) ==
    IF total_applicable_factors > 0
    THEN Rat(applicable_factors, total_applicable_factors)
    ELSE Zero

\* missing_parameters: the truthy missing_data of the inapplicable results, in order.
MissingParameters(outcomes) ==
    LET named == SelectSeq(outcomes,
                     LAMBDA o : ~o.raised /\ ~Val(o.result).is_applicable
                                /\ ~IsNone(Val(o.result).missing_data)
                                /\ Val(Val(o.result).missing_data) # "")
    IN  [i \in 1..Len(named) |-> Val(Val(named[i].result).missing_data)]

RECURSIVE IPow(_, _)
IPow(r, n) == IF n = 0 THEN 1 ELSE r * IPow(r, n - 1)

RECURSIVE ProductOf(_)
ProductOf(s) == IF s = <<>> THEN 1 ELSE Head(s) * ProductOf(Tail(s))

\* The largest r in lo..hi with r^n <= p.
RECURSIVE RootIn(_, _, _, _)
RootIn(p, n, lo, hi) ==
    IF lo >= hi THEN lo
    ELSE LET mid == (lo + hi + 1) \div 2
         IN  IF IPow(mid, n) <= p THEN RootIn(p, n, mid, hi)
             ELSE RootIn(p, n, lo, mid - 1)

\* product of max(raw_score, 0.01), to the power 1/N; in thousandths, rounded down.
GeometricMean(factor_scores) ==
    LET floored == [i \in 1..Len(factor_scores) |-> Max(factor_scores[i].raw_score, 10)]
    IN  Milli(RootIn(ProductOf(floored), Len(factor_scores), 0, 1000))

RECURSIVE MinOf(_)
MinOf(s) == IF Len(s) = 1 THEN s[1] ELSE Min(Head(s), MinOf(Tail(s)))

\* An average that divides the weighted sum by the number of factor scores.
WeightedAverageOverCount(factor_scores) ==
    RDiv(RSum([i \in 1..Len(factor_scores) |-> factor_scores[i].weighted_score]),
         Rat(Len(factor_scores), 1))

\* sum(f.weighted_score) / sum(f.weight), 0.0 if the weights sum to 0.
WeightedAverage(factor_scores) ==
    LET total_weight == RSum([i \in 1..Len(factor_scores) |-> factor_scores[i].weight])
    IN  IF total_weight.n = 0 THEN Zero
        ELSE RDiv(RSum([i \in 1..Len(factor_scores) |->
                           factor_scores[i].weighted_score]),
                  total_weight)

\* A _calculate_total_score whose else branch takes the weakest factor.
calculate_total_score_else_minimum(cfg, factor_scores) ==
    IF factor_scores = <<>> THEN Zero
    ELSE CASE cfg.normalization_method = "weighted_average" ->
                WeightedAverage(factor_scores)
           [] cfg.normalization_method = "geometric_mean" ->
                GeometricMean(factor_scores)
           [] OTHER ->
                Milli(MinOf([i \in 1..Len(factor_scores) |-> factor_scores[i].raw_score]))

\* ScoringEngine._calculate_total_score
calculate_total_score(cfg, factor_scores) ==
    IF factor_scores = <<>> THEN Zero
    ELSE CASE cfg.normalization_method = "weighted_average" ->
                WeightedAverage(factor_scores)
           [] cfg.normalization_method = "geometric_mean" ->
                GeometricMean(factor_scores)
           [] cfg.normalization_method = "minimum" ->
                Milli(MinOf([i \in 1..Len(factor_scores) |-> factor_scores[i].raw_score]))
           [] OTHER -> WeightedAverage(factor_scores)

\* What each enabled registered factor's evaluate does on these inputs.
Outcomes(fs, cfg, exo, st) ==
    LET enabled == EnabledRegistered(fs, cfg)
    IN  [i \in 1..Len(enabled) |-> FactorEvaluate(enabled[i], exo, st)]

\* ScoringEngine.evaluate, given what each enabled registered factor's evaluate
\* did (outcomes): the assessment it returns, or the error that escapes it
\* when a factor's error is not caught.
evaluate(fs, cfg, outcomes) ==
    LET enabled == EnabledRegistered(fs, cfg)
        normalized_weights == normalize_weights(cfg)
        escaped == {i \in DOMAIN outcomes : outcomes[i].raised /\ ~Caught(outcomes[i])}
    IN  IF escaped # {}
        THEN Raised(outcomes[CHOOSE i \in escaped : \A j \in escaped : i <= j].error)
        ELSE
        LET factor_scores ==
                [i \in 1..Len(enabled) |->
                    ScoreOutcome(enabled[i], outcomes[i], normalized_weights)]
        IN  Returned([ total_score |-> calculate_total_score(cfg, factor_scores),
                       factor_scores |-> factor_scores,
                       data_completeness |->
                           DataCompleteness(ApplicableCount(outcomes), Len(enabled)),
                       missing_parameters |-> MissingParameters(outcomes) ])

\* ------------------------------------------------------------------ actions

\* The assessment evaluate returned for the present registry and inputs.
Evaluated == ~IsNone(assessment) /\ ~Val(assessment).raised
TheAssessment == Val(Val(assessment).result)

\* The position of factor_id in the registry, 0 if it is not registered.
IndexOf(fs, fid) ==
    IF \E i \in DOMAIN fs : fs[i].factor_id = fid
    THEN CHOOSE i \in DOMAIN fs : fs[i].factor_id = fid
    ELSE 0

\* ScoringEngine.get_factor: self._factors.get(factor_id)
get_factor(fs, fid) == IF IndexOf(fs, fid) # 0 THEN Some(fs[IndexOf(fs, fid)]) ELSE None

\* A register_factor that refuses an id it already holds, as its docstring
\* announces (ValueError): the registry keeps the factor it had.
register_factor_rejecting(fs, factor) ==
    IF IndexOf(fs, factor.factor_id) # 0 THEN fs ELSE Append(fs, factor)

\* ScoringEngine.register_factor: self._factors[factor.factor_id] = factor; a
\* dict keeps the position of a key it already holds.
register_factor(fs, factor) ==
    IF IndexOf(fs, factor.factor_id) # 0
    THEN [fs EXCEPT ![IndexOf(fs, factor.factor_id)] = factor]
    ELSE Append(fs, factor)

\* ScoringEngine.unregister_factor: del self._factors[factor_id]
unregister_factor(fs, fid) == SelectSeq(fs, LAMBDA f : f.factor_id # fid)

RegisterFactor ==
    \E fid \in StubIds, cls \in StubClasses :
        /\ IndexOf(factors, fid) # 0 \/ Len(factors) < MaxFactors
        /\ factors' = register_factor(factors, Factor(fid, cls))
        /\ assessment' = None
        /\ results' = <<>>
        /\ UNCHANGED <<config, exoplanet, star, calls, now>>

UnregisterFactor ==
    \E fid \in StubIds :
        /\ IndexOf(factors, fid) # 0
        /\ factors' = unregister_factor(factors, fid)
        /\ assessment' = None
        /\ results' = <<>>
        /\ UNCHANGED <<config, exoplanet, star, calls, now>>

Evaluate ==
    /\ results' = Outcomes(factors, config, exoplanet, star)
    /\ assessment' = Some(evaluate(factors, config, results'))
    /\ UNCHANGED <<factors, config, exoplanet, star, calls, now>>

\* Configurations of the engine that holds injected factors: "fa" and "fb" are
\* configured, "fc" is not.
StubWeights == {0, 5, 100}
StubMethods == {"weighted_average", "geometric_mean", "minimum", "harmonic"}
ConfigOf(wa, wb, eb, m) ==
    ScoringConfig("2.0.0",
                  ("fa" :> Val(FactorWeightConfig("fa", wa, TRUE, <<>>).result))
                  @@ ("fb" :> Val(FactorWeightConfig("fb", wb, eb, <<>>).result)),
                  m, 3, <<>>)
StubConfigs ==
    {ConfigOf(wa, wb, eb, m) :
        wa \in {w \in StubWeights : ValidWeight(w)},
        wb \in {w \in StubWeights : ValidWeight(w)},
        eb \in BOOLEAN, m \in StubMethods}

\* ScoringEngine(config, factors=None): an empty registry.
Init ==
    /\ factors = <<>>
    /\ config \in StubConfigs
    /\ exoplanet = EmptyExoplanet
    /\ star = EmptyStar
    /\ assessment = None
    /\ results = <<>>
    /\ calls = <<>>
    /\ now = 0

Next == RegisterFactor \/ UnregisterFactor \/ Evaluate

Spec == Init /\ [][Next]_vars

\* Known values a caller may give the fields of the entities, plausible or not.
StarValues ==
    [ spectral_type |-> {<<"G", "2", "V">>},
      radius_solar |-> {1000},
      temperature_k |-> {5778, 12000},
      luminosity_solar |-> {1000, 0, -1000},
      age_gyr |-> {4600} ]
OrbitalValues ==
    [ period_days |-> {365}, semi_major_axis_au |-> {1000}, eccentricity |-> {17} ]
PhysicalValues ==
    [ radius_earth |-> {1000, 0, -1000},
      mass_earth |-> {1000, 0, -1000},
      density_g_cm3 |-> {5514},
      equilibrium_temp_k |-> {255} ]

\* The caller fills in an absent field of the star.
SetStarField ==
    \E k \in DOMAIN StarValues : \E v \in StarValues[k] :
        /\ IsNone(star[k])
        /\ star' = [star EXCEPT ![k] = Some(v)]
        /\ assessment' = None
        /\ results' = <<>>
        /\ UNCHANGED <<factors, config, exoplanet, calls, now>>

\* The caller fills in an absent orbital parameter of the exoplanet.
SetOrbitalField ==
    \E k \in DOMAIN OrbitalValues : \E v \in OrbitalValues[k] :
        /\ IsNone(exoplanet.orbital[k])
        /\ exoplanet' = [exoplanet EXCEPT !.orbital[k] = Some(v)]
        /\ assessment' = None
        /\ results' = <<>>
        /\ UNCHANGED <<factors, config, star, calls, now>>

\* The caller fills in an absent physical parameter of the exoplanet.
SetPhysicalField ==
    \E k \in DOMAIN PhysicalValues : \E v \in PhysicalValues[k] :
        /\ IsNone(exoplanet.physical[k])
        /\ exoplanet' = [exoplanet EXCEPT !.physical[k] = Some(v)]
        /\ assessment' = None
        /\ results' = <<>>
        /\ UNCHANGED <<factors, config, star, calls, now>>

\* create_default_engine(): the 13 built-in factors under ScoringConfig().
InitDefault ==
    /\ factors = get_all_factors
    /\ config = DefaultConfig
    /\ exoplanet = EmptyExoplanet
    /\ star = EmptyStar
    /\ assessment = None
    /\ results = <<>>
    /\ calls = <<>>
    /\ now = 0

NextDefault == SetStarField \/ SetOrbitalField \/ SetPhysicalField \/ Evaluate

SpecDefault == InitDefault /\ [][NextDefault]_vars


\* ------------------------------------------------------------------- claims

One == Rat(1, 1)

\* The ids of the registered factors the config does not disable.
EnabledIds == {factors[i].factor_id : i \in {j \in DOMAIN factors :
                    is_factor_enabled(config, factors[j].factor_id)}}

\* The weight evaluate is to give factor fid: its config weight over the sum of
\* the enabled config weights, and the engine's 0.1 where that table has no
\* entry for fid.
ConfigWeight(fid) ==
    IF fid \in DOMAIN config.factor_weights /\ config.factor_weights[fid].enabled
       /\ get_total_weight(config) > 0
    THEN Rat(config.factor_weights[fid].weight, get_total_weight(config))
    ELSE Rat(1, 10)

\* One FactorScore for each enabled registered factor, and no other.
OneScorePerEnabledFactor(a) ==
    /\ Len(a.factor_scores) = Cardinality(EnabledIds)
    /\ \A fid \in EnabledIds :
          Cardinality({i \in DOMAIN a.factor_scores :
                          a.factor_scores[i].factor_id = fid}) = 1

C3_TotalScoreInUnitInterval ==
    Evaluated =>
        /\ RLe(Zero, TheAssessment.total_score)
        /\ RLe(TheAssessment.total_score, One)

\* sum of raw_score * weight over the FactorScores
SumRawTimesWeight(fss) ==
    RSum([i \in 1..Len(fss) |-> RMul(Milli(fss[i].raw_score), fss[i].weight)])
SumWeight(fss) == RSum([i \in 1..Len(fss) |-> fss[i].weight])

\* C4: under weighted_average, total_score is the sum of raw_score * weight
\* divided by the sum of weight over all FactorScores of the assessment, and 0
\* when there is no FactorScore or the weights sum to 0.
C4_WeightedAverage ==
    (Evaluated /\ config.normalization_method = "weighted_average") =>
        LET fss == TheAssessment.factor_scores
        IN  TheAssessment.total_score =
               IF fss = <<>> \/ SumWeight(fss) = Zero THEN Zero
               ELSE RDiv(SumRawTimesWeight(fss), SumWeight(fss))

\* C5: every FactorScore of an assessment has weighted_score = raw_score * weight,
\* whether the factor returned a result or raised.
C5_WeightedScoreIsProduct ==
    Evaluated =>
        \A i \in DOMAIN TheAssessment.factor_scores :
            LET fs == TheAssessment.factor_scores[i]
            IN  fs.weighted_score = RMul(Milli(fs.raw_score), fs.weight)

\* The results of the last evaluate that came back applicable.
ApplicableResults ==
    {i \in DOMAIN results : ~results[i].raised /\ Val(results[i].result).is_applicable}

\* C9: data_completeness is the number of enabled registered factors whose result
\* is applicable over the number of enabled registered factors (a factor that
\* raised counts below the line only), 0 when no enabled factor is registered; so
\* it lies in [0, 1].
C9_DataCompleteness ==
    Evaluated =>
        /\ Len(results) = Cardinality(EnabledIds)
        /\ TheAssessment.data_completeness =
              IF Cardinality(EnabledIds) = 0 THEN Zero
              ELSE Rat(Cardinality(ApplicableResults), Cardinality(EnabledIds))
        /\ RLe(Zero, TheAssessment.data_completeness)
        /\ RLe(TheAssessment.data_completeness, One)

\* Of two enabled factors one raised and one was applicable: completeness 1/2.
C9_Witness ==
    /\ Evaluated
    /\ \E i \in DOMAIN results : results[i].raised
    /\ Cardinality(ApplicableResults) = 1
    /\ TheAssessment.data_completeness = Rat(1, 2)


\* C2: on the engine that holds the 13 built-in factors, evaluate returns an
\* assessment (no error escapes it) with exactly one FactorScore per enabled
\* registered factor, whatever the inputs: absent, zero or negative.
C2_DefaultEngineNeverRaises ==
    ~IsNone(assessment) =>
        /\ ~Val(assessment).raised
        /\ Len(TheAssessment.factor_scores) = Len(get_all_factors)
        /\ OneScorePerEnabledFactor(TheAssessment)

\* An assessment of implausible inputs, during which some factor raised.
C2_Witness ==
    /\ Evaluated
    /\ exoplanet.physical.radius_earth = Some(0)
    /\ exoplanet.physical.mass_earth = Some(-1000)
    /\ star.luminosity_solar = Some(-1000)
    /\ \E i \in DOMAIN results : results[i].raised
    /\ Len(TheAssessment.factor_scores) = 13

\* C6: every built-in factor's id is a key of the default weight table, each
\* FactorScore of the default engine carries that table weight normalized over
\* the enabled factors, and the FactorScore weights sum to 1.
C6_DefaultTableWeights ==
    Evaluated =>
        LET fss == TheAssessment.factor_scores
        IN  /\ \A i \in DOMAIN fss :
                  /\ fss[i].factor_id \in DOMAIN DEFAULT_WEIGHTS
                  /\ fss[i].weight = Rat(DEFAULT_WEIGHTS[fss[i].factor_id],
                                         get_total_weight(config))
            /\ SumWeight(fss) = One

\* The input factor fid scores is absent from the entities.
RequiredInputAbsent(fid) ==
    CASE fid \in {"stellar_type", "stellar_luminosity"} -> Falsy(star.spectral_type)
      [] fid = "stellar_age" -> IsNone(star.age_gyr)
      [] fid = "habitable_zone_position" ->
            IsNone(exoplanet.orbital.semi_major_axis_au) \/ IsNone(estimate_luminosity(star))
      [] fid = "planet_radius" -> IsNone(exoplanet.physical.radius_earth)
      [] fid = "planet_mass" -> IsNone(exoplanet.physical.mass_earth)
      [] fid = "planet_density" ->
            /\ IsNone(exoplanet.physical.density_g_cm3)
            /\ IsNone(exoplanet.physical.mass_earth) \/ IsNone(exoplanet.physical.radius_earth)
      [] fid = "equilibrium_temperature" -> IsNone(exoplanet.physical.equilibrium_temp_k)
      [] fid = "surface_gravity" ->
            IsNone(exoplanet.physical.mass_earth) \/ IsNone(exoplanet.physical.radius_earth)
      [] fid = "orbital_eccentricity" -> IsNone(exoplanet.orbital.eccentricity)
      [] fid = "tidal_locking" ->
            IsNone(exoplanet.orbital.period_days) /\ IsNone(exoplanet.orbital.semi_major_axis_au)
      [] fid \in {"atmosphere_retention", "magnetic_field"} ->
            IsNone(exoplanet.physical.mass_earth) /\ IsNone(exoplanet.physical.radius_earth)

\* The missing-data result: returned, not raised, with score 0.5, confidence
\* very_low, is_applicable false and missing_data naming a field.
IsMissingDataResult(outcome) ==
    /\ ~outcome.raised
    /\ Val(outcome.result).score = 500
    /\ Val(outcome.result).confidence = "very_low"
    /\ ~Val(outcome.result).is_applicable
    /\ ~IsNone(Val(outcome.result).missing_data)
    /\ Val(Val(outcome.result).missing_data) # ""

\* C7: each of the 13 built-in factors, when the input it requires is absent,
\* returns the missing-data result.
C7_MissingInputGivesMissingDataResult ==
    Evaluated =>
        \A i \in DOMAIN results :
            RequiredInputAbsent(factors[i].factor_id) => IsMissingDataResult(results[i])

\* C8: for a pair with every optional field absent, every factor of the default
\* engine reports is_applicable false with score 0.5, data_completeness is 0 and
\* total_score is 0.5.
C8_FullyEmptyScenario ==
    (Evaluated /\ exoplanet = EmptyExoplanet /\ star = EmptyStar) =>
        /\ \A i \in DOMAIN results :
              /\ ~results[i].raised
              /\ ~Val(results[i].result).is_applicable
              /\ Val(results[i].result).score = 500
        /\ TheAssessment.data_completeness = Zero
        /\ TheAssessment.total_score = Rat(1, 2)

\* The data_completeness of the engine's assessment of the pair (exo, st).
CompletenessOf(exo, st) ==
    Val(evaluate(factors, config, Outcomes(factors, config, exo, st)).result)
        .data_completeness

\* C10: giving an absent optional field a known value, all other fields kept,
\* never lowers the data_completeness of the default engine's assessment.
C10_CompletenessMonotone ==
    [][(exoplanet' # exoplanet \/ star' # star) =>
          RLe(CompletenessOf(exoplanet, star), CompletenessOf(exoplanet', star'))]_vars

\* ------------------------------------- evaluate, statement by statement

\* Callers that are inside evaluate on the same engine at the same time.
NumCallers == 2
Callers == 1..NumCallers

\* The clock is read at most this many ticks after the engine was built.
MaxNow == 1

\* A caller that has not called evaluate.  `overlapped` is history: whether
\* a pass of this call's loop ran while another call was inside its loop.
IdleCall ==
    [ pc |-> "idle", exoplanet |-> EmptyExoplanet, star |-> EmptyStar,
      normalized_weights |-> <<>>, i |-> 1,
      factor_scores |-> <<>>, missing_parameters |-> <<>>,
      applicable_factors |-> 0, total_applicable_factors |-> 0,
      returned |-> None, overlapped |-> FALSE ]

\* evaluate up to its loop: the local accumulators and the normalized weights.
begin_evaluate(cfg, exo, st) ==
    [ IdleCall EXCEPT !.pc = "loop", !.exoplanet = exo, !.star = st,
                      !.normalized_weights = normalize_weights(cfg) ]

\* A loop whose accumulator of factor scores is the one caller 1 uses.
loop_body_shared(call, fs, cfg) ==
    LET f == fs[call.i]
        mine == [call EXCEPT !.factor_scores = calls[1].factor_scores]
    IN  IF ~is_factor_enabled(cfg, f.factor_id)
        THEN [call EXCEPT !.i = @ + 1]
        ELSE
        LET outcome == FactorEvaluate(f, call.exoplanet, call.star)
            weight == WeightOf(call.normalized_weights, f.factor_id)
        IN  IF outcome.raised
            THEN [mine EXCEPT
                    !.i = @ + 1,
                    !.total_applicable_factors = @ + 1,
                    !.factor_scores =
                        Append(@, ErrorFactorScore(f, outcome.error, weight))]
            ELSE
            LET result == Val(outcome.result)
            IN  [mine EXCEPT
                   !.i = @ + 1,
                   !.total_applicable_factors = @ + 1,
                   !.applicable_factors = IF result.is_applicable THEN @ + 1 ELSE @,
                   !.factor_scores = Append(@, FactorScore(f, result, weight))]

\* One pass of `for factor_id, factor in self._factors.items()`, for the
\* factor at position call.i of the registry.
loop_body(call, fs, cfg) ==
    LET f == fs[call.i]
    IN  IF ~is_factor_enabled(cfg, f.factor_id)
        THEN [call EXCEPT !.i = @ + 1]
        ELSE
        LET outcome == FactorEvaluate(f, call.exoplanet, call.star)
            weight == WeightOf(call.normalized_weights, f.factor_id)
        IN  IF outcome.raised
            THEN IF Caught(outcome)
                 THEN [call EXCEPT
                         !.i = @ + 1,
                         !.total_applicable_factors = @ + 1,
                         !.factor_scores =
                             Append(@, ErrorFactorScore(f, outcome.error, weight))]
                 ELSE [call EXCEPT !.pc = "raised",
                                   !.total_applicable_factors = @ + 1]
            ELSE
            LET result == Val(outcome.result)
            IN  [call EXCEPT
                   !.i = @ + 1,
                   !.total_applicable_factors = @ + 1,
                   !.applicable_factors = IF result.is_applicable THEN @ + 1 ELSE @,
                   !.missing_parameters =
                       IF ~result.is_applicable /\ ~IsNone(result.missing_data)
                          /\ Val(result.missing_data) # ""
                       THEN Append(@, Val(result.missing_data)) ELSE @,
                   !.factor_scores = Append(@, FactorScore(f, result, weight))]

\* An assessment whose factor explanations carry the time it was made.
finish_evaluate_stamped(call, cfg, timestamp) ==
    [ call EXCEPT
        !.pc = "done",
        !.returned = Some(
            [ total_score |-> calculate_total_score(cfg, call.factor_scores),
              factor_scores |->
                  [k \in DOMAIN call.factor_scores |->
                      [call.factor_scores[k] EXCEPT
                          !.explanation = Append(@, ToString(timestamp))]],
              data_completeness |->
                  DataCompleteness(call.applicable_factors,
                                   call.total_applicable_factors),
              missing_parameters |-> call.missing_parameters,
              assessment_timestamp |-> timestamp ]) ]

\* evaluate after its loop: the total score, the completeness and the
\* HabitabilityAssessment, stamped with datetime.utcnow().
finish_evaluate(call, cfg, timestamp) ==
    [ call EXCEPT
        !.pc = "done",
        !.returned = Some(
            [ total_score |-> calculate_total_score(cfg, call.factor_scores),
              factor_scores |-> call.factor_scores,
              data_completeness |->
                  DataCompleteness(call.applicable_factors,
                                   call.total_applicable_factors),
              missing_parameters |-> call.missing_parameters,
              assessment_timestamp |-> timestamp ]) ]

\* The arguments callers hand to evaluate: an empty pair, and a planet of one
\* Earth radius around an empty star.
CallInputs ==
    { [exoplanet |-> EmptyExoplanet, star |-> EmptyStar],
      [exoplanet |-> [EmptyExoplanet EXCEPT !.physical.radius_earth = Some(1000)],
       star |-> EmptyStar] }

\* The registries the callers share: up to two of these factors, in any order.
CallFactorPool ==
    { Factor("fa", "RaisingFactor"), Factor("fb", "MissingFactor"),
      Factor("fc", "HighFactor"), Factor("planet_radius", "PlanetRadiusFactor") }
CallRegistries ==
    {<<>>} \cup {register_factor(<<>>, f) : f \in CallFactorPool}
    \cup {register_factor(register_factor(<<>>, p[1]), p[2]) :
             p \in {q \in CallFactorPool \X CallFactorPool : q[1] # q[2]}}

\* The configs of the shared engine.
CallConfigs ==
    {c \in StubConfigs :
        /\ c.factor_weights["fa"].weight = 5
        /\ c.factor_weights["fb"].weight = 100
        /\ c.normalization_method \in {"weighted_average", "minimum"}}

\* A caller enters evaluate.
CallEvaluate ==
    \E c \in Callers, input \in CallInputs :
        /\ calls[c].pc = "idle"
        /\ calls' = [calls EXCEPT
                        ![c] = begin_evaluate(config, input.exoplanet, input.star)]
        /\ UNCHANGED <<factors, config, exoplanet, star, assessment, results, now>>

\* A call runs one pass of its loop.
LoopStep ==
    \E c \in Callers :
        /\ calls[c].pc = "loop"
        /\ calls[c].i <= Len(factors)
        /\ calls' = [calls EXCEPT
                        ![c] = [loop_body(calls[c], factors, config) EXCEPT
                                   !.overlapped =
                                       @ \/ \E o \in Callers \ {c} :
                                               calls[o].pc = "loop"]]
        /\ UNCHANGED <<factors, config, exoplanet, star, assessment, results, now>>

\* A call leaves its loop and returns its assessment.
ReturnAssessment ==
    \E c \in Callers :
        /\ calls[c].pc = "loop"
        /\ calls[c].i > Len(factors)
        /\ calls' = [calls EXCEPT ![c] = finish_evaluate(calls[c], config, now)]
        /\ UNCHANGED <<factors, config, exoplanet, star, assessment, results, now>>

\* Time passes.
Tick ==
    /\ now < MaxNow
    /\ now' = now + 1
    /\ UNCHANGED <<factors, config, exoplanet, star, assessment, results, calls>>

\* An engine built with a registry and a config, and callers about to use it.
InitCalls ==
    /\ factors \in CallRegistries
    /\ config \in CallConfigs
    /\ exoplanet = EmptyExoplanet
    /\ star = EmptyStar
    /\ assessment = None
    /\ results = <<>>
    /\ calls = [c \in Callers |-> IdleCall]
    /\ now = 0

NextCalls == CallEvaluate \/ LoopStep \/ ReturnAssessment \/ Tick

SpecCalls == InitCalls /\ [][NextCalls]_vars

\* The assessment without its assessment_timestamp.
SansTimestamp(a) ==
    [ total_score |-> a.total_score, factor_scores |-> a.factor_scores,
      data_completeness |-> a.data_completeness,
      missing_parameters |-> a.missing_parameters ]

\* C11: two evaluate calls with the same exoplanet, the same star, the same
\* registered factors and the same config return identical FactorScore lists
\* and identical total_score, data_completeness and missing_parameters; only
\* the timestamp may differ.
C11_Determinism ==
    \A c1 \in Callers, c2 \in Callers :
        (/\ calls[c1].pc = "done" /\ calls[c2].pc = "done"
         /\ calls[c1].exoplanet = calls[c2].exoplanet
         /\ calls[c1].star = calls[c2].star)
        => SansTimestamp(Val(calls[c1].returned))
             = SansTimestamp(Val(calls[c2].returned))

\* Two calls with the same arguments returned at different times, each with
\* two factor scores.
C11_Witness ==
    /\ calls[1].pc = "done" /\ calls[2].pc = "done"
    /\ calls[1].exoplanet = calls[2].exoplanet
    /\ calls[1].star = calls[2].star
    /\ ~IsNone(calls[1].exoplanet.physical.radius_earth)
    /\ Val(calls[1].returned).assessment_timestamp
         # Val(calls[2].returned).assessment_timestamp
    /\ Len(Val(calls[1].returned).factor_scores) = 2

\* C12: in any interleaving of evaluate calls on one engine, with no
\* register_factor or unregister_factor among them, the registry and the
\* config are left as they were and every call returns the FactorScore list,
\* total_score, data_completeness and missing_parameters it returns when it
\* runs alone.
C12_ConcurrentEvaluate ==
    [][ /\ factors' = factors
        /\ config' = config
        /\ \A c \in Callers :
              calls'[c].pc = "done" =>
                  SansTimestamp(Val(calls'[c].returned))
                    = Val(evaluate(factors, config,
                                   Outcomes(factors, config,
                                            calls'[c].exoplanet,
                                            calls'[c].star)).result) ]_vars

\* Two calls with different arguments ran their loops at the same time and
\* both returned.
C12_Witness ==
    /\ calls[1].pc = "done" /\ calls[2].pc = "done"
    /\ calls[1].overlapped /\ calls[2].overlapped
    /\ calls[1].exoplanet # calls[2].exoplanet
    /\ Len(Val(calls[1].returned).factor_scores) = 2
    /\ Val(calls[1].returned).factor_scores # Val(calls[2].returned).factor_scores

\* ------------------------------------------- floating-point rounding

\* Python floats keep a fixed number of significant bits and round every
\* result to them; here they keep MantissaBits bits (binary64 keeps 53).
MantissaBits == 6

RECURSIVE Pow2(_)
Pow2(k) == IF k = 0 THEN 1 ELSE 2 * Pow2(k - 1)

\* The least k with n * 2^k / d >= 2^(MantissaBits - 1), for 0 < n/d < 2^MantissaBits.
RECURSIVE FExp(_, _, _)
FExp(n, d, k) ==
    IF n * Pow2(k) >= d * Pow2(MantissaBits - 1) THEN k ELSE FExp(n, d, k + 1)

\* The float nearest to the fraction r >= 0 (round to nearest, ties to even).
FRound(r) ==
    IF r.n = 0 THEN Zero
    ELSE LET k == FExp(r.n, r.d, 0)
             q == (r.n * Pow2(k)) \div r.d
             rem == (r.n * Pow2(k)) % r.d
             m == IF 2 * rem > r.d \/ (2 * rem = r.d /\ q % 2 = 1) THEN q + 1 ELSE q
         IN  Rat(m, Pow2(k))

\* sum(...) over floats: added left to right, each partial sum rounded.
RECURSIVE FSum(_, _)
FSum(acc, s) == IF s = <<>> THEN acc ELSE FSum(FRound(RAdd(acc, Head(s))), Tail(s))

\* ScoringConfig.normalize_weights in floats: config.weight / total.
RECURSIVE float_total_weight(_, _)
float_total_weight(cfg, ids) ==
    IF ids = {} THEN Zero
    ELSE LET fid == CHOOSE x \in ids : TRUE
         IN  FRound(RAdd(float_total_weight(cfg, ids \ {fid}),
                         FRound(Rat(cfg.factor_weights[fid].weight, 100))))

float_normalize_weights(cfg) ==
    LET total == float_total_weight(cfg, get_enabled_factors(cfg))
    IN  IF total.n = 0 THEN <<>>
        ELSE [fid \in get_enabled_factors(cfg) |->
                 FRound(RDiv(FRound(Rat(cfg.factor_weights[fid].weight, 100)), total))]

\* The weight and weighted_score evaluate gives the factor scores, in floats:
\* weight = normalized_weights.get(factor_id, 0.1); weighted_score =
\* result.score * weight, and the literal 0.05 on the error path.
float_factor_scores(fs, cfg, outcomes) ==
    LET enabled == EnabledRegistered(fs, cfg)
        normalized_weights == float_normalize_weights(cfg)
    IN  [i \in 1..Len(enabled) |->
            LET weight == DictGet(normalized_weights, enabled[i].factor_id,
                                  FRound(Rat(1, 10)))
            IN  [ weight |-> weight,
                  weighted_score |->
                      IF outcomes[i].raised THEN FRound(Rat(5, 100))
                      ELSE FRound(RMul(FRound(Milli(Val(outcomes[i].result).score)),
                                       weight)) ]]

\* ScoringEngine._calculate_total_score with the sums and the quotient of the
\* weighted average rounded as floats; the geometric mean and the minimum are
\* taken from the exact computation.
float_total_score(fs, cfg, outcomes) ==
    LET scores == float_factor_scores(fs, cfg, outcomes)
        total_weight == FSum(Zero, [i \in DOMAIN scores |-> scores[i].weight])
    IN  IF scores = <<>> THEN Zero
        ELSE IF cfg.normalization_method \in {"geometric_mean", "minimum"}
        THEN Val(evaluate(fs, cfg, outcomes).result).total_score
        ELSE IF total_weight.n = 0 THEN Zero
        ELSE FRound(RDiv(FSum(Zero, [i \in DOMAIN scores |-> scores[i].weighted_score]),
                         total_weight))

\* The registries that hold the factors of fs, registered in any order.
RegistrationOrders(fs) ==
    LET n == Len(fs)
        perms == {p \in [1..n -> 1..n] : \A i \in 1..n, j \in 1..n : p[i] = p[j] => i = j}
    IN  {[i \in 1..n |-> fs[p[i]]] : p \in perms}

\* C13: for the same set of registered factors and the same config,
\* total_score and data_completeness of evaluate do not depend on the order in
\* which the factors were registered, under each normalization method.
C13_OrderInsensitive ==
    Evaluated =>
        \A other \in RegistrationOrders(factors) :
            LET theirs == Outcomes(other, config, exoplanet, star)
            IN  /\ float_total_score(other, config, theirs)
                     = float_total_score(factors, config, results)
                /\ Val(evaluate(other, config, theirs).result).data_completeness
                     = TheAssessment.data_completeness

\* ------------------------------------------- an engine built with factors

\* ScoringEngine(config, factors=[...]): __init__ registers each factor of
\* the list in turn.
InitialFactors ==
    register_factor(
        register_factor(register_factor(<<>>, Factor("fa", "HighFactor")),
                        Factor("fb", "MissingFactor")),
        Factor("fc", "RaisingFactor"))

RegistryConfigs ==
    {c \in StubConfigs :
        /\ c.factor_weights["fa"].weight = 5
        /\ c.factor_weights["fb"].weight \in {5, 100}
        /\ c.normalization_method = "weighted_average"}

InitRegistered ==
    /\ factors = InitialFactors
    /\ config \in RegistryConfigs
    /\ exoplanet = EmptyExoplanet
    /\ star = EmptyStar
    /\ assessment = None
    /\ results = <<>>
    /\ calls = <<>>
    /\ now = 0

\* The engine built with three factors, and registrations only: every id is
\* taken, so each register_factor call meets a registered id.
NextReplace == RegisterFactor \/ Evaluate
SpecReplace == InitRegistered /\ [][NextReplace]_vars

\* The engine built with three factors, under every registry operation.
SpecRegistry == InitRegistered /\ [][Next]_vars

OptKey(present, k, v) == IF present THEN k :> v ELSE <<>>

\* Weights written in config files, in hundredths: two of them out of range.
FileWeights == {-5, 0, 100, 150}

\* The "factor_weights" mappings of the config files: "fa" as a bare number,
\* "fb" as a mapping with any of its keys left out.
FileFactorWeights ==
    { ("fa" :> NumberEntry(wa))
      @@ ("fb" :> DictEntry(OptKey(hasw, "weight", wb) @@ OptKey(hase, "enabled", FALSE)
                            @@ OptKey(hasp, "parameters", [steepness |-> 2]))) :
        wa \in {-5, 5, 150}, wb \in FileWeights,
        hasw \in BOOLEAN, hase \in BOOLEAN, hasp \in BOOLEAN }

\* The config files' contents, every top-level key present or left out.
ConfigDicts ==
    { OptKey(hasf, "factor_weights", fw) @@ OptKey(hasv, "version", "1.0.0")
      @@ OptKey(hasn, "normalization_method", "minimum")
      @@ OptKey(hasm, "minimum_factors", 0)
      @@ OptKey(hasc, "confidence_thresholds", [high |-> 90]) :
        fw \in FileFactorWeights, hasf \in BOOLEAN, hasv \in BOOLEAN,
        hasn \in BOOLEAN, hasm \in BOOLEAN, hasc \in BOOLEAN }

\* config = ScoringConfig.from_dict(data); ScoringEngine(config, factors): a
\* from_dict that raises builds no engine.
LoadConfig ==
    \E data \in ConfigDicts :
        /\ ~from_dict(data).raised
        /\ config' = Val(from_dict(data).result)
        /\ factors' = InitialFactors
        /\ assessment' = None
        /\ results' = <<>>
        /\ UNCHANGED <<exoplanet, star, calls, now>>

\* The engine's config is saved with to_dict and an engine is built on what
\* from_dict loads back.
ReloadConfig ==
    /\ ~from_dict(to_dict(config)).raised
    /\ config' = Val(from_dict(to_dict(config)).result)
    /\ factors' = InitialFactors
    /\ assessment' = None
    /\ results' = <<>>
    /\ UNCHANGED <<exoplanet, star, calls, now>>

\* ScoringEngine(ScoringConfig(), factors)
InitConfig ==
    /\ factors = InitialFactors
    /\ config = DefaultConfig
    /\ exoplanet = EmptyExoplanet
    /\ star = EmptyStar
    /\ assessment = None
    /\ results = <<>>
    /\ calls = <<>>
    /\ now = 0

NextConfig == LoadConfig \/ ReloadConfig \/ Evaluate

SpecConfig == InitConfig /\ [][NextConfig]_vars

\* The weights a config file's contents give, defaults included.
WeightsIn(data) ==
    LET entries == DictGet(data, "factor_weights", <<>>)
    IN  {IF entries[fid].is_dict THEN DictGet(entries[fid].dict, "weight", 10)
         ELSE entries[fid].number : fid \in DOMAIN entries}

\* C18: building a factor weight with a value outside [0, 1], directly or
\* through from_dict, raises and yields no config; so the config of no engine
\* holds a weight outside [0, 1] and none reaches evaluate.
C18_WeightsValidated ==
    /\ \A fid \in DOMAIN config.factor_weights :
          /\ 0 <= config.factor_weights[fid].weight
          /\ config.factor_weights[fid].weight <= 100
    /\ \A w \in FileWeights :
          (w < 0 \/ w > 100) =>
              /\ FactorWeightConfig("fa", w, TRUE, <<>>).raised
              /\ IsNone(FactorWeightConfig("fa", w, TRUE, <<>>).result)
    /\ \A data \in ConfigDicts :
          (\E w \in WeightsIn(data) : w < 0 \/ w > 100) =>
              /\ from_dict(data).raised
              /\ IsNone(from_dict(data).result)

\* An engine whose config was loaded from a file's contents has evaluated,
\* and other contents, with an out-of-range weight, were refused.
C18_Witness ==
    /\ Evaluated
    /\ config.version = "1.0.0"
    /\ "fb" \in DOMAIN config.factor_weights
    /\ config.factor_weights["fb"].weight = 100
    /\ \E data \in ConfigDicts : from_dict(data).raised

\* C19: for every ScoringConfig c, from_dict(c.to_dict()) equals c in version,
\* in every factor's weight, enabled flag and parameters, in
\* normalization_method, minimum_factors and confidence_thresholds.
C19_ConfigRoundTrip ==
    LET back == from_dict(to_dict(config))
    IN  /\ ~back.raised
        /\ Val(back.result).version = config.version
        /\ DOMAIN Val(back.result).factor_weights = DOMAIN config.factor_weights
        /\ \A fid \in DOMAIN config.factor_weights :
              LET a == Val(back.result).factor_weights[fid]
                  b == config.factor_weights[fid]
              IN  /\ a.weight = b.weight
                  /\ a.enabled = b.enabled
                  /\ a.parameters = b.parameters
        /\ Val(back.result).normalization_method = config.normalization_method
        /\ Val(back.result).minimum_factors = config.minimum_factors
        /\ Val(back.result).confidence_thresholds = config.confidence_thresholds

\* A config that differs from the defaults in every field, with a disabled
\* factor that has parameters.
C19_Witness ==
    /\ config.version = "1.0.0"
    /\ config.normalization_method = "minimum"
    /\ config.minimum_factors = 0
    /\ config.confidence_thresholds = [high |-> 90]
    /\ "fb" \in DOMAIN config.factor_weights
    /\ ~config.factor_weights["fb"].enabled
    /\ config.factor_weights["fb"].parameters = [steepness |-> 2]
    /\ config.factor_weights["fb"].weight = 100
    /\ config.factor_weights["fa"].weight = 5
    /\ Evaluated

\* ------------------------------------------------------------ get_methodology

\* factor.factor_name, factor.description and factor.references are fixed by
\* the factor's class.
factor_name(f) == <<"factor_name", f.cls>>
description(f) == <<"description", f.cls>>
references(f) == <<"references", f.cls>>

\* A get_methodology that skips the factors the config disables.
get_methodology_enabled_only(fs, cfg) ==
    LET listed == EnabledRegistered(fs, cfg)
    IN  [ version |-> "2.0.0",
          normalization_method |-> cfg.normalization_method,
          minimum_factors_required |-> cfg.minimum_factors,
          factors |-> [i \in 1..Len(listed) |->
                          [ id |-> listed[i].factor_id,
                            name |-> factor_name(listed[i]),
                            category |-> category(listed[i]),
                            description |-> description(listed[i]),
                            weight |-> get_weight(cfg, listed[i].factor_id),
                            enabled |-> is_factor_enabled(cfg, listed[i].factor_id),
                            references |-> references(listed[i]) ]],
          total_factors |-> Len(listed),
          enabled_factors |-> Cardinality(get_enabled_factors(cfg)) ]

\* ScoringEngine.get_methodology: one entry per item of self._factors, in
\* registry order, computed at each call.
get_methodology(fs, cfg) ==
    [ version |-> "2.0.0",
      normalization_method |-> cfg.normalization_method,
      minimum_factors_required |-> cfg.minimum_factors,
      factors |-> [i \in 1..Len(fs) |->
                      [ id |-> fs[i].factor_id,
                        name |-> factor_name(fs[i]),
                        category |-> category(fs[i]),
                        description |-> description(fs[i]),
                        weight |-> get_weight(cfg, fs[i].factor_id),
                        enabled |-> is_factor_enabled(cfg, fs[i].factor_id),
                        references |-> references(fs[i]) ]],
      total_factors |-> Len(fs),
      enabled_factors |-> Cardinality(get_enabled_factors(cfg)) ]

\* The ids get_methodology lists.
ListedIds(m) == {m.factors[i].id : i \in DOMAIN m.factors}

\* The methodology of the engine as it is.
MethodologyInSync(fs, cfg) ==
    LET m == get_methodology(fs, cfg)
    IN  /\ \A fid \in StubIds :
              Cardinality({i \in DOMAIN m.factors : m.factors[i].id = fid})
                 = IF IsNone(get_factor(fs, fid)) THEN 0 ELSE 1
        /\ ListedIds(m) \subseteq StubIds
        /\ m.total_factors = Cardinality(ListedIds(m))
        /\ m.total_factors = Len(fs)
        /\ \A i \in DOMAIN m.factors :
              LET f == Val(get_factor(fs, m.factors[i].id))
              IN  /\ m.factors[i].name = factor_name(f)
                  /\ m.factors[i].category = category(f)
                  /\ m.factors[i].description = description(f)
                  /\ m.factors[i].references = references(f)
                  /\ m.factors[i].weight = get_weight(cfg, f.factor_id)
                  /\ m.factors[i].enabled = is_factor_enabled(cfg, f.factor_id)

\* C15: after any sequence of register_factor and unregister_factor calls,
\* get_methodology().factors lists exactly the registered factor ids, each
\* once, with the name, category, description, weight, enabled flag and
\* references of the factor registered under the id, and total_factors is the
\* size of the registry; a factor that has just been unregistered is not
\* listed, and one that has just been registered is.
C15_MethodologyInSync ==
    /\ [](MethodologyInSync(factors, config))
    /\ [][ /\ \A fid \in StubIds :
                (/\ ~IsNone(get_factor(factors, fid))
                 /\ factors' = unregister_factor(factors, fid))
                => fid \notin ListedIds(get_methodology(factors', config'))
           /\ \A fid \in StubIds, cls \in StubClasses :
                factors' = register_factor(factors, Factor(fid, cls))
                => \E i \in DOMAIN get_methodology(factors', config').factors :
                      LET e == get_methodology(factors', config').factors[i]
                      IN  e.id = fid /\ e.name = factor_name(Factor(fid, cls))
         ]_vars

\* The engine was built with "fa", "fb", "fc"; "fb" was unregistered, "fa"
\* unregistered and registered again as another class, and the methodology
\* lists "fc" then "fa", two factors in all.
C15_Witness ==
    LET m == get_methodology(factors, config)
    IN  /\ m.total_factors = 2
        /\ Len(m.factors) = 2
        /\ m.factors[1].id = "fc"
        /\ m.factors[2].id = "fa"
        /\ m.factors[2].name = factor_name(Factor("fa", "LowFactor"))
        /\ "fb" \notin ListedIds(m)
        /\ ~is_factor_enabled(config, "fb")

\* ------------------------------------------------------------ disabled factors

\* The registered factors whose config entry has enabled = false.
DisabledRegistered(fs, cfg) ==
    {i \in DOMAIN fs :
        /\ fs[i].factor_id \in DOMAIN cfg.factor_weights
        /\ ~cfg.factor_weights[fs[i].factor_id].enabled}

\* C16: a registered factor whose config entry has enabled = false is never
\* evaluated: evaluate calls no factor for it, the assessment holds no
\* FactorScore for it, the data_completeness denominator is the number of the
\* other registered factors, get_weight returns 0 for it and normalize_weights
\* has no entry for it.
C16_DisabledSkipped ==
    Evaluated =>
        LET disabled == DisabledRegistered(factors, config)
            others == Len(factors) - Cardinality(disabled)
        IN  /\ Len(results) = others
            /\ Len(TheAssessment.factor_scores) = others
            /\ TheAssessment.data_completeness
                  = DataCompleteness(ApplicableCount(results), others)
            /\ \A i \in disabled :
                  /\ \A j \in DOMAIN TheAssessment.factor_scores :
                        TheAssessment.factor_scores[j].factor_id # factors[i].factor_id
                  /\ get_weight(config, factors[i].factor_id) = 0
                  /\ factors[i].factor_id \notin DOMAIN normalize_weights(config)

\* "fb" is registered as a factor that would score 1.0 and is disabled with
\* weight 1.0; "fa", which lacks data, is the only factor scored, and the
\* completeness is 0 of 1.
C16_Witness ==
    /\ Evaluated
    /\ get_factor(factors, "fb") = Some(Factor("fb", "HighFactor"))
    /\ get_factor(factors, "fa") = Some(Factor("fa", "MissingFactor"))
    /\ Len(factors) = 2
    /\ DisabledRegistered(factors, config) # {}
    /\ config.factor_weights["fb"].weight = 100
    /\ Len(TheAssessment.factor_scores) = 1
    /\ TheAssessment.data_completeness = Zero

\* --------------------------------------------------------- normalize_weights

\* The values of a mapping over ids, as a sequence.
RECURSIVE ValuesOf(_, _)
ValuesOf(mapping, ids) ==
    IF ids = {} THEN <<>>
    ELSE LET fid == CHOOSE x \in ids : TRUE
         IN  <<mapping[fid]>> \o ValuesOf(mapping, ids \ {fid})

\* |a - b| <= tol
Within(a, b, tol) ==
    /\ RLe(a, RAdd(b, tol))
    /\ RLe(b, RAdd(a, tol))

\* Half a unit in the last place of 1.0 for each weight that was divided and
\* added.
SumTolerance(cfg) ==
    Rat(Cardinality(get_enabled_factors(cfg)), Pow2(MantissaBits))

C20_ScoreClamped ==
    \A i \in DOMAIN results :
        ~results[i].raised =>
            LET r == Val(results[i].result)
                f == EnabledRegistered(factors, config)[i]
            IN  /\ 0 <= r.score /\ r.score <= 1000
                /\ f.cls = "HighFactor" => r.score = 1000
                /\ f.cls = "LowFactor" => r.score = 0
                /\ f.cls = "MidFactor" => r.score = 700

\* An evaluation in which one factor computed 1.5 and another -0.2.
C20_Witness ==
    /\ Evaluated
    /\ \E i, j \in DOMAIN results :
          /\ EnabledRegistered(factors, config)[i].cls = "HighFactor"
          /\ EnabledRegistered(factors, config)[j].cls = "LowFactor"
          /\ Val(results[i].result).score = 1000
          /\ Val(results[j].result).score = 0

\* ------------------------------------------------------ normalization methods

KnownMethods == {"weighted_average", "geometric_mean", "minimum"}

\* The config with its normalization_method set to weighted_average.
AsWeightedAverage(cfg) == [cfg EXCEPT !.normalization_method = "weighted_average"]

\* C21: with a normalization_method that is none of weighted_average,
\* geometric_mean, minimum, evaluate does not fail and its total_score is the
\* one weighted_average gives for the same FactorScores.
C21_UnknownMethodFallsBack ==
    (~IsNone(assessment) /\ config.normalization_method \notin KnownMethods) =>
        /\ ~Val(assessment).raised
        /\ LET average == evaluate(factors, AsWeightedAverage(config), results)
           IN  /\ ~average.raised
               /\ Val(average.result).factor_scores = TheAssessment.factor_scores
               /\ Val(average.result).total_score = TheAssessment.total_score
               /\ TheAssessment.total_score
                     = calculate_total_score(AsWeightedAverage(config),
                                             TheAssessment.factor_scores)

\* Under the method "harmonic", two factors scoring 1.0 and 0.7 with weights
\* 0.05 and 1.0 were evaluated: the total is their weighted average, which is
\* neither their minimum nor their geometric mean.
C21_Witness ==
    /\ Evaluated
    /\ config.normalization_method = "harmonic"
    /\ Len(TheAssessment.factor_scores) = 2
    /\ TheAssessment.factor_scores[1].raw_score = 1000
    /\ TheAssessment.factor_scores[2].raw_score = 700
    /\ TheAssessment.factor_scores[1].weight = Rat(1, 21)
    /\ TheAssessment.total_score = Rat(5, 7)

\* ------------------------------------------------- geometric mean, in floats

\* The unit of the fixed-point logarithms pow works with.
LogUnit == Pow2(14)

\* The fraction bits of log2(y / LogUnit) for 1 <= y / LogUnit < 2, the
\* highest of the i bits first.
RECURSIVE LogFrac(_, _)
LogFrac(y, i) ==
    IF i = 0 THEN 0
    ELSE LET y2 == (y * y) \div LogUnit
         IN  IF y2 >= 2 * LogUnit
             THEN Pow2(i - 1) + LogFrac(y2 \div 2, i - 1)
             ELSE LogFrac(y2, i - 1)

\* log2 of the float r > 0, in LogUnit-ths.
FLog2(r) ==
    LET k == FExp(r.n, r.d, 0)
        m == (r.n * Pow2(k)) \div r.d
    IN  (MantissaBits - 1 - k) * LogUnit
          + LogFrac((m * LogUnit) \div Pow2(MantissaBits - 1), 14)

\* 2^(F / LogUnit) in LogUnit-ths for 0 <= F < LogUnit, from the lowest bit
\* of F up: r becomes sqrt(r * 2^bit).
RECURSIVE Exp2Frac(_, _, _)
Exp2Frac(F, i, r) ==
    IF i = 14 THEN r
    ELSE LET bit == (F \div Pow2(i)) % 2
         IN  Exp2Frac(F, i + 1, ISqrt(r * (IF bit = 1 THEN 2 ELSE 1) * LogUnit))

\* base ** exponent on floats, 0 < base <= 1, 0 < exponent <= 1:
\* 2^(exponent * log2(base)), rounded to the nearest float.
float_pow(base, exponent) ==
    LET T == (FLog2(base) * exponent.n) \div exponent.d
        I == T \div LogUnit
        F == T % LogUnit
    IN  FRound(Rat(Exp2Frac(F, 0, LogUnit), LogUnit * Pow2(-I)))

\* The least s with n < 2^(MantissaBits + s).
RECURSIVE DroppedBits(_, _)
DroppedBits(n, s) == IF n < Pow2(MantissaBits + s) THEN s ELSE DroppedBits(n, s + 1)

\* a * b on floats in (0, 1], rounded to the nearest float (ties to even): the
\* product of the mantissas loses its low bits.
FMul(a, b) ==
    LET n == a.n * b.n
        s == DroppedBits(n, 0)
        q == n \div Pow2(s)
        rem == n % Pow2(s)
        m == IF 2 * rem > Pow2(s) \/ (2 * rem = Pow2(s) /\ q % 2 = 1) THEN q + 1 ELSE q
    IN  IF b.d >= Pow2(s) THEN Rat(m, a.d * (b.d \div Pow2(s)))
        ELSE Rat(m * (Pow2(s) \div b.d), a.d)

\* product *= max(f.raw_score, 0.01), each product rounded.
RECURSIVE float_product(_, _)
float_product(acc, factor_scores) ==
    IF factor_scores = <<>> THEN acc
    ELSE float_product(
             FMul(acc, FRound(Milli(Max(Head(factor_scores).raw_score, 10)))),
             Tail(factor_scores))

\* The geometric_mean branch of _calculate_total_score in floats:
\* product ** (1.0 / len(factor_scores)).
float_geometric_mean(factor_scores) ==
    float_pow(float_product(One, factor_scores),
              FRound(Rat(1, Len(factor_scores))))

\* C22: under geometric_mean, total_score is the N-th root of the product of
\* max(raw_score, 0.01) over the N FactorScores (rounded down to thousandths
\* in the exact computation), and the float the code computes is at least
\* the float 0.01 even when factors have raw_score 0.
C22_GeometricMeanFloor ==
    (/\ Evaluated
     /\ config.normalization_method = "geometric_mean"
     /\ TheAssessment.factor_scores # <<>>) =>
        LET scores == TheAssessment.factor_scores
            n == Len(scores)
            product == ProductOf([i \in 1..n |-> Max(scores[i].raw_score, 10)])
            root == (TheAssessment.total_score.n * 1000) \div TheAssessment.total_score.d
        IN  /\ IPow(root, n) <= product
            /\ product < IPow(root + 1, n)
            /\ root >= 10
            /\ RLe(FRound(Rat(1, 100)), float_geometric_mean(scores))

\* ------------------------------------------ categories of a built assessment

\* ScoreCategory.from_score
from_score(score) ==
    IF RLe(Milli(800), score) THEN "Very High"
    ELSE IF RLe(Milli(600), score) THEN "High"
    ELSE IF RLe(Milli(400), score) THEN "Moderate"
    ELSE IF RLe(Milli(200), score) THEN "Low"
    ELSE "Very Low"

\* HabitabilityAssessment.score_category
score_category(a) == from_score(a.total_score)

\* advanced.SCORE_CATEGORIES, the bounds in thousandths.
SCORE_CATEGORIES ==
    << <<0, 200, "Very Low">>, <<200, 400, "Low">>, <<400, 600, "Moderate">>,
       <<600, 800, "High">>, <<800, 1000, "Very High">> >>

\* for lower, upper, category in SCORE_CATEGORIES: the category of the first
\* band with lower <= score < upper, if any.
RECURSIVE FirstBand(_, _)
FirstBand(score, table) ==
    IF table = <<>> THEN None
    ELSE IF RLe(Milli(Head(table)[1]), score) /\ ~RLe(Milli(Head(table)[2]), score)
         THEN Some(Head(table)[3])
         ELSE FirstBand(score, Tail(table))

\* A get_score_category whose fallback is "Very Low" for every score.
get_score_category_low_fallback(score) ==
    IF ~IsNone(FirstBand(score, SCORE_CATEGORIES))
    THEN Val(FirstBand(score, SCORE_CATEGORIES))
    ELSE "Very Low"

\* advanced.get_score_category: the first band that holds the score, and past
\* the table "Very High" if score >= 0.8 else "Very Low".
get_score_category(score) ==
    IF ~IsNone(FirstBand(score, SCORE_CATEGORIES))
    THEN Val(FirstBand(score, SCORE_CATEGORIES))
    ELSE IF RLe(Milli(800), score) THEN "Very High" ELSE "Very Low"

ConfidenceRank ==
    [very_low |-> 1, low |-> 2, medium |-> 3, high |-> 4, very_high |-> 5]

\* An overall_confidence capped by the least confident factor, as its
\* docstring suggests.
overall_confidence_with_factors(a) ==
    LET by_data == IF RLe(Milli(800), a.data_completeness) THEN "very_high"
                   ELSE IF RLe(Milli(600), a.data_completeness) THEN "high"
                   ELSE IF RLe(Milli(400), a.data_completeness) THEN "medium"
                   ELSE IF RLe(Milli(200), a.data_completeness) THEN "low"
                   ELSE "very_low"
        least == CHOOSE c \in {a.factor_scores[i].confidence : i \in DOMAIN a.factor_scores}
                              \cup {by_data} :
                    \A i \in DOMAIN a.factor_scores :
                        ConfidenceRank[c] <= ConfidenceRank[a.factor_scores[i].confidence]
    IN  IF ConfidenceRank[least] < ConfidenceRank[by_data] THEN least ELSE by_data

\* HabitabilityAssessment.overall_confidence
overall_confidence(a) ==
    IF RLe(Milli(800), a.data_completeness) THEN "very_high"
    ELSE IF RLe(Milli(600), a.data_completeness) THEN "high"
    ELSE IF RLe(Milli(400), a.data_completeness) THEN "medium"
    ELSE IF RLe(Milli(200), a.data_completeness) THEN "low"
    ELSE "very_low"

\* HabitabilityAssessment(total_score=..., factor_scores=..., ...): the
\* dataclass takes the values it is given.
HabitabilityAssessment(total_score, factor_scores, data_completeness, missing_parameters) ==
    [ total_score |-> total_score,
      factor_scores |-> factor_scores,
      data_completeness |-> data_completeness,
      missing_parameters |-> missing_parameters ]

\* Total scores around every band edge, in thousandths, in range or not.
ScoreGrid ==
    {-200, 0, 1, 199, 200, 201, 399, 400, 401, 599, 600, 601, 799, 800, 801,
     999, 1000, 1500}

\* applicable_factors / total_applicable_factors for up to five factors.
CompletenessGrid ==
    {Rat(p[1], p[2]) : p \in {q \in (0..5) \X (1..5) : q[1] <= q[2]}}

ConfidenceLevels == {"very_low", "low", "medium", "high", "very_high"}

\* One FactorScore of the given confidence.
ScoreOfConfidence(c) ==
    FactorScore(Factor("fa", "MidFactor"),
                FactorResult("fa", 700, <<"computed">>, c, TRUE, None),
                Rat(1, 10))

\* An assessment is built.
Assess ==
    \E t \in ScoreGrid, dc \in CompletenessGrid, c \in ConfidenceLevels :
        /\ assessment' = Some(Returned(
               HabitabilityAssessment(Milli(t), <<ScoreOfConfidence(c)>>, dc, <<>>)))
        /\ UNCHANGED <<factors, config, exoplanet, star, results, calls, now>>

\* No engine is involved: an empty registry under the default config.
InitAssess ==
    /\ factors = <<>>
    /\ config = DefaultConfig
    /\ exoplanet = EmptyExoplanet
    /\ star = EmptyStar
    /\ assessment = None
    /\ results = <<>>
    /\ calls = <<>>
    /\ now = 0

NextAssess == Assess
SpecAssess == InitAssess /\ [][NextAssess]_vars

\* C23: score_category maps total_score to five bands with inclusive lower and
\* exclusive upper bounds (below 0.2 Very Low, [0.2,0.4) Low, [0.4,0.6)
\* Moderate, [0.6,0.8) High, 0.8 and above Very High), and the category the
\* API service computes (get_score_category) is the same for every score.
C23_ScoreCategoryBands ==
    Evaluated =>
        LET s == TheAssessment.total_score
            below(t) == ~RLe(Milli(t), s)
        IN  /\ below(200) <=> score_category(TheAssessment) = "Very Low"
            /\ (~below(200) /\ below(400)) <=> score_category(TheAssessment) = "Low"
            /\ (~below(400) /\ below(600)) <=> score_category(TheAssessment) = "Moderate"
            /\ (~below(600) /\ below(800)) <=> score_category(TheAssessment) = "High"
            /\ ~below(800) <=> score_category(TheAssessment) = "Very High"
            /\ get_score_category(s) = score_category(TheAssessment)

\* An assessment of total score exactly 1.0, which no band of the service's
\* table holds, is Very High for both.
C23_Witness ==
    /\ Evaluated
    /\ TheAssessment.total_score = One
    /\ score_category(TheAssessment) = "Very High"
    /\ get_score_category(TheAssessment.total_score) = "Very High"

\* The bands of data_completeness.
CompletenessBand(dc) ==
    CASE ~RLe(Milli(200), dc) -> "very_low"
      [] RLe(Milli(200), dc) /\ ~RLe(Milli(400), dc) -> "low"
      [] RLe(Milli(400), dc) /\ ~RLe(Milli(600), dc) -> "medium"
      [] RLe(Milli(600), dc) /\ ~RLe(Milli(800), dc) -> "high"
      [] RLe(Milli(800), dc) -> "very_high"

\* The assessment with the confidence of every factor score set to c.
WithConfidences(a, c) ==
    [a EXCEPT !.factor_scores =
        [i \in DOMAIN a.factor_scores |-> [a.factor_scores[i] EXCEPT !.confidence = c]]]

EarthAnalog(exo, st) ==
    /\ exo.physical.radius_earth = Some(1000)
    /\ exo.physical.mass_earth = Some(1000)
    /\ exo.physical.equilibrium_temp_k = Some(255)
    /\ exo.orbital.eccentricity = Some(17)
    /\ exo.orbital.semi_major_axis_au = Some(1000)
    /\ st.spectral_type = Some(<<"G", "2", "V">>)
    /\ st.temperature_k = Some(5778)
    /\ st.age_gyr = Some(4600)
    /\ st.luminosity_solar = Some(1000)

\* C25: for radius_earth 1.0, mass_earth 1.0, equilibrium_temp_k 255,
\* eccentricity 0.017, semi_major_axis_au 1.0 around a star of spectral type
\* G2V, 5778 K, 4.6 Gyr and 1.0 solar luminosity, whatever the other fields,
\* the default engine returns total_score >= 0.7 and a score category High or
\* Very High.
C25_EarthAnalogScoresHigh ==
    (~IsNone(assessment) /\ EarthAnalog(exoplanet, star)) =>
        /\ ~Val(assessment).raised
        /\ RLe(Milli(700), TheAssessment.total_score)
        /\ score_category(TheAssessment) \in {"High", "Very High"}
        /\ get_score_category(TheAssessment.total_score) \in {"High", "Very High"}

\* The scenario with every other field absent: the thirteen factors are all
\* scored and the total is 0.9631...
C25_Witness ==
    /\ Evaluated
    /\ EarthAnalog(exoplanet, star)
    /\ IsNone(exoplanet.orbital.period_days)
    /\ IsNone(exoplanet.physical.density_g_cm3)
    /\ IsNone(star.radius_solar)
    /\ Len(TheAssessment.factor_scores) = 13
    /\ TheAssessment.data_completeness = One
    /\ TheAssessment.total_score = Rat(496, 515)

\* ------------------------------------- derived properties of the planet

\* PhysicalParameters.escape_velocity_km_s: 11.186 * math.sqrt(mass / radius),
\* in thousandths of a km/s; math.sqrt raises on a negative quotient.
escape_velocity_km_s(ph) ==
    IF IsNone(ph.mass_earth) \/ IsNone(ph.radius_earth) THEN Returned(None)
    ELSE IF Val(ph.radius_earth) <= 0 THEN Returned(None)
    ELSE IF DivK(Val(ph.mass_earth), Val(ph.radius_earth)) < 0
    THEN Raised("math domain error")
    ELSE Returned(Some(MulK(11186,
             ISqrt(DivK(Val(ph.mass_earth), Val(ph.radius_earth)) * 1000))))

\* C28: the derived-property calculations of PhysicalParameters
\* (surface_gravity_earth, escape_velocity_km_s, estimate_density) never
\* raise, and when mass or radius is absent, or radius_earth <= 0, each
\* returns None instead of computing a value (estimate_density when no
\* density is given).
C28_DerivedNeverRaise ==
    LET ph == exoplanet.physical
        unusable == \/ IsNone(ph.mass_earth)
                    \/ IsNone(ph.radius_earth)
                    \/ Val(ph.radius_earth) <= 0
    IN  /\ ~escape_velocity_km_s(ph).raised
        /\ ~estimate_density(ph).raised
        /\ unusable =>
              /\ IsNone(surface_gravity_earth(ph))
              /\ IsNone(Val(escape_velocity_km_s(ph).result))
              /\ IsNone(ph.density_g_cm3) => IsNone(Val(estimate_density(ph).result))

\* ------------------------------------------- single factors on fine inputs

\* Eccentricities on and around the limits of the factor's bands, in
\* thousandths.
EccentricityGrid ==
    {0, 17, 19, 20, 99, 100, 199, 200, 206, 299, 300, 499, 500, 799, 800, 990}

\* Radii on and around the limits of the factor's bands, in thousandths of
\* an Earth radius.
RadiusGrid ==
    {-1000, 0, 499, 500, 799, 800, 1000, 1249, 1250, 1749, 1750, 2499, 2500,
     3999, 4000, 11200}

\* Luminosities (thousandths of the solar one) and effective temperatures.
LuminosityGrid == {0, 1, 1000, 40000}
TemperatureGrid == {2600, 3000, 4000, 5778, 7200, 9000, 9600, 10500, 12000}

\* Planets at 1 AU of which one field more is known.
FactorPlanets ==
    LET at_1au == [EmptyExoplanet EXCEPT !.orbital.semi_major_axis_au = Some(1000)]
    IN  {at_1au}
        \cup {[at_1au EXCEPT !.orbital.eccentricity = Some(e)] : e \in EccentricityGrid}
        \cup {[at_1au EXCEPT !.physical.radius_earth = Some(r)] : r \in RadiusGrid}

\* Stars of known luminosity and temperature, and the star of which nothing
\* is known.
FactorStars ==
    {EmptyStar}
    \cup {[EmptyStar EXCEPT !.luminosity_solar = Some(l), !.temperature_k = Some(t)] :
             l \in LuminosityGrid, t \in TemperatureGrid}

\* The three factors the inputs above exercise, in the order get_all_factors
\* gives them.
FineFactors ==
    << Factor("habitable_zone_position", "HabitableZonePositionFactor"),
       Factor("planet_radius", "PlanetRadiusFactor"),
       Factor("orbital_eccentricity", "OrbitalEccentricityFactor") >>

InitFine ==
    /\ factors = FineFactors
    /\ config = DefaultConfig
    /\ exoplanet \in FactorPlanets
    /\ star \in FactorStars
    /\ assessment = None
    /\ results = <<>>
    /\ calls = <<>>
    /\ now = 0

NextFine == Evaluate
SpecFine == InitFine /\ [][NextFine]_vars

\* The raw score evaluate gave factor fid.
RawScoreOf(fid) ==
    LET scores == TheAssessment.factor_scores
    IN  scores[CHOOSE i \in DOMAIN scores : scores[i].factor_id = fid].raw_score

\* C26: the orbital eccentricity factor gives score 1.0 at eccentricity 0.0,
\* the score of the moderate band (0.7) at eccentricity 0.206, and a score
\* <= 0.05 at eccentricity 0.99.
C26_EccentricityScores ==
    Evaluated =>
        /\ exoplanet.orbital.eccentricity = Some(0)
              => RawScoreOf("orbital_eccentricity") = 1000
        /\ exoplanet.orbital.eccentricity = Some(206)
              => RawScoreOf("orbital_eccentricity") = 700
        /\ exoplanet.orbital.eccentricity = Some(990)
              => RawScoreOf("orbital_eccentricity") <= 50

\* The score the table of the claim gives a radius (thousandths).
RadiusTable(r) ==
    CASE r < 500 -> 300
      [] 500 <= r /\ r < 800 -> 600
      [] 800 <= r /\ r < 1250 -> 1000
      [] 1250 <= r /\ r < 1750 -> 850
      [] 1750 <= r /\ r < 2500 -> 400
      [] 2500 <= r /\ r < 4000 -> 150
      [] r >= 4000 -> 50

\* C27: the planet radius factor scores a known radius r by the table r<0.5
\* 0.3, 0.5<=r<0.8 0.6, 0.8<=r<1.25 1.0, 1.25<=r<1.75 0.85, 1.75<=r<2.5 0.4,
\* 2.5<=r<4.0 0.15, r>=4.0 0.05.
C27_RadiusTable ==
    (Evaluated /\ ~IsNone(exoplanet.physical.radius_earth)) =>
        RawScoreOf("planet_radius") = RadiusTable(Val(exoplanet.physical.radius_earth))

\* A planet of exactly 1.25 Earth radii was evaluated and scored 0.85: the
\* limit belongs to the band above it.
C27_Witness ==
    /\ Evaluated
    /\ exoplanet.physical.radius_earth = Some(1250)
    /\ RawScoreOf("planet_radius") = 850

\* C29: whenever calculate_habitable_zone returns boundaries for a
\* luminosity/temperature pair, conservative_inner < conservative_outer and
\* optimistic_inner <= conservative_inner <= conservative_outer <=
\* optimistic_outer.
C29_ZoneOrdering ==
    (Evaluated /\ ~calculate_habitable_zone(star).raised
       /\ ~IsNone(Val(calculate_habitable_zone(star).result))) =>
        LET hz == Val(Val(calculate_habitable_zone(star).result))
            conservative_inner == hz[1]
            conservative_outer == hz[2]
            optimistic_inner == hz[3]
            optimistic_outer == hz[4]
        IN  /\ conservative_inner < conservative_outer
            /\ optimistic_inner <= conservative_inner
            /\ conservative_inner <= conservative_outer
            /\ conservative_outer <= optimistic_outer

\* ------------------------------------------- weights used, weights reported

\* The entry get_methodology lists for factor fid.
MethodologyEntry(fs, cfg, fid) ==
    LET m == get_methodology(fs, cfg)
    IN  m.factors[CHOOSE i \in DOMAIN m.factors : m.factors[i].id = fid]

\* C30: for every registered enabled factor, a factor that has no entry in
\* the config included, the weight evaluate attaches to its FactorScore is
\* the weight get_methodology reports for the factor id divided by the total
\* weight of the enabled config entries.
C30_WeightsAsReported ==
    Evaluated =>
        \A i \in DOMAIN TheAssessment.factor_scores :
            LET score == TheAssessment.factor_scores[i]
                reported == MethodologyEntry(factors, config, score.factor_id)
            IN  /\ reported.enabled
                /\ get_total_weight(config) > 0
                      => score.weight = Rat(reported.weight, get_total_weight(config))
====
